---- MODULE Spec2Model ----
(***************************************************************************)
(* Swipe-to-word prediction pipeline of HeyEyeUnified: TextInputEngine,    *)
(* the DTW shape matcher, the vocabulary loader, the feature builder and   *)
(* the LightGBM ranker wrapper.                                            *)
(*                                                                         *)
(* In the engine, the shape matcher and the ranker, float values are       *)
(* integers: every input is drawn from sets on which the float operations  *)
(* of the code are exact (point sets whose pairwise Euclidean distances    *)
(* are integers, log-probabilities and distances that are small integers), *)
(* so integer arithmetic gives the value the float code computes.  The     *)
(* feature builder rounds, so its floats are binary32 values with their    *)
(* 24-digit mantissa.  Words are sequences of ASCII letters.               *)
(***************************************************************************)
EXTENDS Integers, Sequences, FiniteSets, TLC

VARIABLES
    m_initialized,       \* TextInputEngine::m_initialized
    m_swipeEncoder,      \* TRUE when the ONNX session pointer is non-null
    m_faissIndex,        \* TRUE when the index pointer is non-null
    m_kenLM,             \* TRUE when the language model pointer is non-null
    m_lightGBM,          \* TRUE when the ranker pointer is non-null (model loaded)
    m_vocab,             \* [null, map]: cluster id -> list of words
    m_vocabKeys,         \* [null, vec]: vector of canonical forms
    m_currentText,       \* the text entered so far, a sequence of characters
    m_wordHistory,       \* the words recorded by AppendCharacter and AppendText
    initCall,            \* the last call of Initialize: its artifacts and result
    req,                 \* the last prediction request: inputs, stages, result
    dtwA, dtwB,          \* the two paths handed to dtw_multivariate
    dtwWindow,           \* the window argument of the reference call
    dtwRef,              \* result of dtw_multivariate(A, B, dtwWindow)
    dtwCall,             \* a second call, compared with the reference call
    rankInput,           \* what predict() returns to rank_candidates
    sortTie,             \* how the build's std::sort orders equal scores
    rankFirst, rankSecond, \* two calls of rank_candidates on rankInput
    rankBest,            \* a call of get_best_candidate on rankInput
    lmChain,             \* a chain of EvaluateIncremental calls and its reference
    lastEdit,            \* the last text operation and the texts before it
    featIn,              \* the first-pass candidates handed to the second pass
    featOut,             \* their CandidateFeatures and feature arrays
    encPath,             \* the swipe path handed to EncodeSwipe
    encInput,            \* the tensors EncodeSwipe builds for the encoder
    m_inputMode,         \* KeyboardView::m_inputMode
    m_recordingSwipe,    \* KeyboardView::m_recordingSwipe
    m_swipePath,         \* KeyboardView::m_swipePath
    m_currentHoveredKey, \* KeyboardView::m_currentHoveredKey, "none" when null
    swipeCompleted       \* the path last handed to OnSwipeCompleted

engineVars == <<m_initialized, m_swipeEncoder, m_faissIndex, m_kenLM, m_lightGBM,
                m_vocab, m_vocabKeys, m_currentText, m_wordHistory, initCall, req>>
dtwVars == <<dtwA, dtwB, dtwWindow, dtwRef, dtwCall>>
rankVars == <<rankInput, sortTie, rankFirst, rankSecond, rankBest>>
lmVars == <<lmChain>>
editVars == <<lastEdit>>
featVars == <<featIn, featOut>>
encVars == <<encPath, encInput>>
viewVars == <<m_inputMode, m_recordingSwipe, m_swipePath, m_currentHoveredKey,
              swipeCompleted>>
vars == <<m_initialized, m_swipeEncoder, m_faissIndex, m_kenLM, m_lightGBM,
          m_vocab, m_vocabKeys, m_currentText, m_wordHistory, initCall, req,
          dtwA, dtwB, dtwWindow, dtwRef, dtwCall,
          rankInput, sortTie, rankFirst, rankSecond, rankBest,
          lmChain, lastEdit, featIn, featOut, encPath, encInput,
          m_inputMode, m_recordingSwipe, m_swipePath, m_currentHoveredKey,
          swipeCompleted>>

(***************************************************************************)
(* Bounds                                                                  *)
(***************************************************************************)
MaxPathLen == 3
MaxWindow == 3
MaxClusterId == 2
MaxTextLen == 9
MaxRanked == 3

(***************************************************************************)
(* Generic helpers                                                         *)
(***************************************************************************)
Min(a, b) == IF a <= b THEN a ELSE b
Max(a, b) == IF a >= b THEN a ELSE b
Abs(a) == IF a < 0 THEN -a ELSE a

SeqsUpTo(S, n) == UNION { [1..k -> S] : k \in 0..n }

NoCall == [kind |-> "none"]

(***************************************************************************)
(* Shape matcher: ranking_features.cpp dtw_multivariate                    *)
(***************************************************************************)
\* const float INF = 1e12f, a sentinel above every finite path cost; it is
\* represented by 10^9 (32-bit integers), which is also above every finite
\* cost of the bounded inputs
INF == 1000000000

\* std::sqrt(dx*dx + dy*dy); exact on the point sets used here
ISqrt(k) == CHOOSE r \in 0..k : r * r <= k /\ k < (r + 1) * (r + 1)
Dist(p, q) == ISqrt((p[1] - q[1]) * (p[1] - q[1]) + (p[2] - q[2]) * (p[2] - q[2]))

\* cost + min_val in float: an addend below 32768 is absorbed by 1e12f
FAdd(cost, min_val) == IF min_val >= INF THEN min_val ELSE cost + min_val

\* rows are vectors of m + 1 floats; row[j + 1] here is row[j] in the code
InitPrevRowNoOrigin(m) == [j \in 1..(m + 1) |-> INF]
InitPrevRow(m) == [j \in 1..(m + 1) |-> IF j = 1 THEN 0 ELSE INF]
InitCurrRow(m) == [j \in 1..(m + 1) |-> INF]

EffectiveWindowUnclamped(n, m, window) ==
    IF window < 0 THEN Max(n, m) ELSE window
EffectiveWindow(n, m, window) ==
    LET w1 == IF window < 0 THEN Max(n, m) ELSE window
    IN Max(w1, Abs(n - m))

\* the inner loop over j of one row i; cells outside jstart..jend keep
\* whatever the buffer held
RECURSIVE DtwInner(_, _, _, _, _, _, _)
DtwInner(A, B, i, j, jend, prev_row, curr_row) ==
    IF j > jend THEN curr_row
    ELSE LET cost == Dist(A[i], B[j])
             min_val == Min(Min(prev_row[j + 1], curr_row[j]), prev_row[j])
         IN DtwInner(A, B, i, j + 1, jend, prev_row,
                     [curr_row EXCEPT ![j + 1] = FAdd(cost, min_val)])

\* the outer loop over i, ending with std::swap(prev_row, curr_row)
RECURSIVE DtwOuter(_, _, _, _, _, _)
DtwOuter(A, B, window, i, prev_row, curr_row) ==
    LET n == Len(A)
        m == Len(B)
    IN IF i > n THEN prev_row[m + 1]
       ELSE LET c0 == [curr_row EXCEPT ![1] = INF]
                jstart == Max(1, i - window)
                jend == Min(m, i + window)
                row == DtwInner(A, B, i, jstart, jend, prev_row, c0)
            IN DtwOuter(A, B, window, i + 1, row, prev_row)

dtw_multivariate(A, B, window) ==
    LET n == Len(A)
        m == Len(B)
    IN IF n = 0 \/ m = 0 THEN 0
       ELSE DtwOuter(A, B, EffectiveWindow(n, m, window), 1,
                     InitPrevRow(m), InitCurrRow(m))

(***************************************************************************)
(* Words, vocabulary file, vocabulary loader: ml_helpers.cpp load_vocab    *)
(***************************************************************************)
\* std::string values are sequences of characters; "" is the empty sequence
EmptyString == << >>
wa == <<"a">>
wx == <<"x">>

\* a sorted sequence of the elements of a finite set of integers
RECURSIVE SortedSeq(_)
SortedSeq(S) ==
    IF S = {} THEN << >>
    ELSE LET lo == CHOOSE x \in S : \A y \in S : x <= y
         IN <<lo>> \o SortedSeq(S \ {lo})

\* std::map iterates its keys in ascending order
MapKeys(map) == SortedSeq(DOMAIN map)

NullVocab == [null |-> TRUE, map |-> << >>]
NullKeys == [null |-> TRUE, vec |-> << >>]

\* vocabKeys: a vector with one slot per vocabulary entry, slot idx set to
\* words[0] only when 0 <= idx < size; vec[idx + 1] here is (*vocabKeys)[idx]
BuildVocabKeys(map) ==
    LET size == Cardinality(DOMAIN map)
    IN [k \in 1..size |->
           IF ((k - 1) \in DOMAIN map) /\ Len(map[k - 1]) > 0
           THEN map[k - 1][1] ELSE EmptyString]

\* file: [readable, content]; the pair {nullptr, nullptr} when it cannot be opened
load_vocab(file) ==
    IF ~file.readable THEN [vocab |-> NullVocab, keys |-> NullKeys]
    ELSE [vocab |-> [null |-> FALSE, map |-> file.content],
          keys |-> [null |-> FALSE, vec |-> BuildVocabKeys(file.content)]]

\* vocab->find(idx) != vocab->end()
VocabHas(vocab, idx) == idx \in DOMAIN vocab.map
\* vocabKeys->at(idx) does not throw std::out_of_range
KeysHas(keys, idx) == 0 <= idx /\ idx < Len(keys.vec)
KeysAt(keys, idx) == keys.vec[idx + 1]

(***************************************************************************)
(* Vector index search: ml_helpers.cpp search_faiss_index                  *)
(***************************************************************************)
\* The index answers with (id, distance) pairs, nearest first, ties in id
\* order, filled up with id -1 when it holds fewer than k vectors.  hits is
\* the set of clusters it finds, as a function id -> distance.
RECURSIVE NearestFirst(_)
NearestFirst(hits) ==
    IF DOMAIN hits = {} THEN << >>
    ELSE LET D == DOMAIN hits
             best == CHOOSE i \in D : \A j \in D :
                        hits[i] < hits[j] \/ (hits[i] = hits[j] /\ i <= j)
         IN <<[id |-> best, dist |-> hits[best]]>>
            \o NearestFirst([i \in D \ {best} |-> hits[i]])

IndexSearch(hits) == NearestFirst(hits) \o <<[id |-> 0 - 1, dist |-> 0]>>

\* results[indices[i]] = distances[i] for every index other than -1
RECURSIVE FillResults(_, _, _)
FillResults(raw, i, results) ==
    IF i > Len(raw) THEN results
    ELSE IF raw[i].id # 0 - 1
         THEN FillResults(raw, i + 1,
                  [k \in (DOMAIN results) \cup {raw[i].id} |->
                      IF k = raw[i].id THEN raw[i].dist ELSE results[k]])
         ELSE FillResults(raw, i + 1, results)

search_faiss_index(hits) == FillResults(IndexSearch(hits), 1, << >>)

(***************************************************************************)
(* Language model (KenLM artifact): an n-gram model of order LMOrder       *)
(***************************************************************************)
LMOrder == 3
LMUnk == 0
LMBos == 1
LMEos == 2

\* model->GetVocabulary().Index(word): <unk> for a word the model lacks
LMIndex(word) ==
    IF word = wa THEN 3 ELSE IF word = wx THEN 4 ELSE LMUnk

BeginSentenceState == <<LMBos>>

\* the artifact's table of log-probabilities: depends on the word and on the
\* n-gram history, most recent word first
LMProb(state, idx) ==
    0 - (1 + ((3 * idx + 5 * state[1]
               + (IF Len(state) > 1 THEN 2 * state[2] ELSE 0)) % 7))

\* model->FullScore(in_state, wordIndex, out_state)
FullScore(in_state, idx) ==
    LET ext == <<idx>> \o in_state
    IN [prob |-> LMProb(in_state, idx),
        out_state |-> SubSeq(ext, 1, Min(Len(ext), LMOrder - 1))]

\* model->FullScore(s, wordIndex, s): one State object is both the input and
\* the output, which the library excludes (&in_state != &out_state).  The
\* call stores the new word in words[0] of its output; the build decides
\* whether the history is read before that store ("intact") or after it
\* ("clobbered": the newest history word is the new word itself).
AliasOutcomes == {"intact", "clobbered"}
FullScoreAliased(state, idx, alias) ==
    IF alias = "intact" THEN FullScore(state, idx)
    ELSE FullScore(<<idx>> \o Tail(state), idx)

(***************************************************************************)
(* Ideal keyboard path: ranking_features.cpp init_keyboard_coords,         *)
(* get_word_path                                                           *)
(***************************************************************************)
\* keyboard_coord after init_keyboard_coords, for the letters used here:
\* 'a' is key 0 of row 1, 'x' is key 2 of row 3, SIZE = 20
KeyboardChars == {"a", "x"}
keyboard_coord(c) == IF c = "a" THEN <<10, 70>> ELSE <<40, 30>>

RECURSIVE get_word_path(_)
get_word_path(word) ==
    IF word = << >> THEN << >>
    ELSE IF Head(word) \in KeyboardChars
         THEN <<keyboard_coord(Head(word))>> \o get_word_path(Tail(word))
         ELSE get_word_path(Tail(word))

(***************************************************************************)
(* Feature builder, first pass: ranking_features.cpp compute_all_features  *)
(***************************************************************************)
SeqContains(seq, x) == \E i \in 1..Len(seq) : seq[i] = x

\* The loop over faiss_results (ascending cluster id) and over the words of
\* each cluster.  st = [threw, temp, seen, faiss_rank, lm_idx].
\* vocab->at and vocabKeys->at throw std::out_of_range.
\* every word measured against the ideal path of its own spelling
RECURSIVE FeatureWordsOwnSpelling(_, _, _, _, _, _, _, _)
FeatureWordsOwnSpelling(swipe_path, vocab_idx, faiss_distance, words, wi, keys, lm_scores, st) ==
    IF st.threw \/ wi > Len(words) THEN st
    ELSE LET word == words[wi]
         IN IF word \in st.seen
            THEN FeatureWordsOwnSpelling(swipe_path, vocab_idx, faiss_distance, words,
                              wi + 1, keys, lm_scores, st)
            ELSE IF ~KeysHas(keys, vocab_idx)
                 THEN [st EXCEPT !.threw = TRUE, !.seen = @ \cup {word}]
                 ELSE LET word_path == get_word_path(word)
                          has_lm == st.lm_idx < Len(lm_scores)
                          temp == [word |-> word,
                                   lm_score |-> IF has_lm THEN lm_scores[st.lm_idx + 1] ELSE 0,
                                   faiss_distance |-> faiss_distance,
                                   faiss_rank |-> st.faiss_rank,
                                   dtw_raw |-> dtw_multivariate(swipe_path, word_path, 0 - 1),
                                   len_swipe |-> Len(swipe_path),
                                   len_word |-> Len(word_path),
                                   word_length |-> Len(word)]
                      IN FeatureWordsOwnSpelling(swipe_path, vocab_idx, faiss_distance, words,
                                      wi + 1, keys, lm_scores,
                                      [st EXCEPT !.seen = @ \cup {word},
                                                 !.temp = Append(@, temp),
                                                 !.lm_idx = IF has_lm THEN @ + 1 ELSE @])

RECURSIVE FeatureWords(_, _, _, _, _, _, _, _)
FeatureWords(swipe_path, vocab_idx, faiss_distance, words, wi, keys, lm_scores, st) ==
    IF st.threw \/ wi > Len(words) THEN st
    ELSE LET word == words[wi]
         IN IF word \in st.seen
            THEN FeatureWords(swipe_path, vocab_idx, faiss_distance, words,
                              wi + 1, keys, lm_scores, st)
            ELSE IF ~KeysHas(keys, vocab_idx)
                 THEN [st EXCEPT !.threw = TRUE, !.seen = @ \cup {word}]
                 ELSE LET word_path == get_word_path(KeysAt(keys, vocab_idx))
                          has_lm == st.lm_idx < Len(lm_scores)
                          temp == [word |-> word,
                                   lm_score |-> IF has_lm THEN lm_scores[st.lm_idx + 1] ELSE 0,
                                   faiss_distance |-> faiss_distance,
                                   faiss_rank |-> st.faiss_rank,
                                   dtw_raw |-> dtw_multivariate(swipe_path, word_path, 0 - 1),
                                   len_swipe |-> Len(swipe_path),
                                   len_word |-> Len(word_path),
                                   word_length |-> Len(word)]
                      IN FeatureWords(swipe_path, vocab_idx, faiss_distance, words,
                                      wi + 1, keys, lm_scores,
                                      [st EXCEPT !.seen = @ \cup {word},
                                                 !.temp = Append(@, temp),
                                                 !.lm_idx = IF has_lm THEN @ + 1 ELSE @])

\* the rank counter advancing only past a cluster that gave a candidate
RECURSIVE FeatureClustersSkipsEmpty(_, _, _, _, _, _, _, _)
FeatureClustersSkipsEmpty(swipe_path, faiss_results, ids, ci, vocab, keys, lm_scores, st) ==
    IF st.threw \/ ci > Len(ids) THEN st
    ELSE LET vocab_idx == ids[ci]
         IN IF ~VocabHas(vocab, vocab_idx)
            THEN [st EXCEPT !.threw = TRUE]
            ELSE LET after == FeatureWords(swipe_path, vocab_idx,
                                  faiss_results[vocab_idx], vocab.map[vocab_idx],
                                  1, keys, lm_scores, st)
                 IN FeatureClustersSkipsEmpty(swipe_path, faiss_results, ids, ci + 1, vocab,
                                    keys, lm_scores,
                                    IF after.threw THEN after
                                    ELSE IF Len(after.temp) = Len(st.temp) THEN after
                                    ELSE [after EXCEPT !.faiss_rank = @ + 1])

RECURSIVE FeatureClusters(_, _, _, _, _, _, _, _)
FeatureClusters(swipe_path, faiss_results, ids, ci, vocab, keys, lm_scores, st) ==
    IF st.threw \/ ci > Len(ids) THEN st
    ELSE LET vocab_idx == ids[ci]
         IN IF ~VocabHas(vocab, vocab_idx)
            THEN [st EXCEPT !.threw = TRUE]
            ELSE LET after == FeatureWords(swipe_path, vocab_idx,
                                  faiss_results[vocab_idx], vocab.map[vocab_idx],
                                  1, keys, lm_scores, st)
                 IN FeatureClusters(swipe_path, faiss_results, ids, ci + 1, vocab,
                                    keys, lm_scores,
                                    IF after.threw THEN after
                                    ELSE [after EXCEPT !.faiss_rank = @ + 1])

\* the clusters gone through from the greatest id down
Reverse(seq) == [k \in 1..Len(seq) |-> seq[Len(seq) + 1 - k]]
compute_all_featuresDescending(swipe_path, faiss_results, vocab, keys, lm_scores, candidate_words) ==
    LET st == FeatureClusters(swipe_path, faiss_results, Reverse(MapKeys(faiss_results)), 1,
                  vocab, keys, lm_scores,
                  [threw |-> FALSE, temp |-> << >>, seen |-> {},
                   faiss_rank |-> 1, lm_idx |-> 0])
    IN [threw |-> st.threw, temp |-> IF st.threw THEN << >> ELSE st.temp]
\* [threw, temp]: temp is the list of TempCandidateData of the first pass
compute_all_features(swipe_path, faiss_results, vocab, keys, lm_scores, candidate_words) ==
    LET st == FeatureClusters(swipe_path, faiss_results, MapKeys(faiss_results), 1,
                  vocab, keys, lm_scores,
                  [threw |-> FALSE, temp |-> << >>, seen |-> {},
                   faiss_rank |-> 1, lm_idx |-> 0])
    IN [threw |-> st.threw, temp |-> IF st.threw THEN << >> ELSE st.temp]

(***************************************************************************)
(* Ranker: lightgbm_ranker.cpp LightGBMRanker::rank_candidates             *)
(***************************************************************************)
Permutations1(n) == { f \in [1..n -> 1..n] : \A i, j \in 1..n : i # j => f[i] # f[j] }

\* std::sort with the comparator scores[a] > scores[b]: the result is a
\* permutation of the indices in which no later index has a greater score;
\* the order of indices with equal scores is unspecified
SortOutcomes(scores) ==
    { r \in Permutations1(Len(scores)) :
        \A i, j \in 1..Len(scores) : i < j => scores[r[i]] >= scores[r[j]] }

\* The build's std::sort is one fixed algorithm: tie gives each index a
\* priority, and indices with equal scores come out in priority order.
SortWith(scores, tie) ==
    CHOOSE r \in SortOutcomes(scores) :
        \A i, j \in 1..Len(scores) :
            (i < j /\ scores[r[i]] = scores[r[j]]) => tie[r[i]] < tie[r[j]]

\* raw = [threw, n, scores]: n candidates, and what predict() does with
\* them: it throws (model not loaded, prediction failed) or returns n
\* scores; the indices returned are 1-based here, 0-based in the code
rank_candidates(raw, tie) ==
    IF raw.threw THEN [threw |-> TRUE, indices |-> << >>]
    ELSE [threw |-> FALSE, indices |-> SortWith(raw.scores, tie)]

\* over every way a build may order equal scores
rank_candidates_outcomes(raw) ==
    { rank_candidates(raw, tie) : tie \in Permutations1(Len(raw.scores)) }

\* the word of candidate i of a candidate set handed to the ranker directly
RankWord(i) == [k \in 1..i |-> "a"]

\* LightGBMRanker::get_best_candidate: [threw, word]
get_best_candidateUnchecked(raw, tie) ==
    LET ranked == rank_candidates(raw, tie)
    IN IF ranked.threw \/ ranked.indices = << >>
       THEN [threw |-> TRUE, word |-> << >>]
       ELSE [threw |-> FALSE, word |-> RankWord(ranked.indices[1])]
get_best_candidate(raw, tie) ==
    IF raw.n = 0 THEN [threw |-> FALSE, word |-> << >>]
    ELSE LET ranked == rank_candidates(raw, tie)
         IN IF ranked.threw THEN [threw |-> TRUE, word |-> << >>]
            ELSE [threw |-> FALSE, word |-> RankWord(ranked.indices[1])]

(***************************************************************************)
(* TextInputEngine: language-model scoring                                 *)
(***************************************************************************)
\* wxSplit(text, ' ') followed by the removal of the empty tokens
RECURSIVE SplitWords(_, _, _, _)
SplitWords(text, i, cur, acc) ==
    LET flushed == IF cur = << >> THEN acc ELSE Append(acc, cur)
    IN IF i > Len(text) THEN flushed
       ELSE IF text[i] = " "
            THEN SplitWords(text, i + 1, << >>, flushed)
            ELSE SplitWords(text, i + 1, Append(cur, text[i]), acc)

\* context_words of RankCandidates: the last words of the current text
ContextLimit == 4
ContextWords(text) ==
    LET all_words == SplitWords(text, 1, << >>, << >>)
    IN IF Len(all_words) > ContextLimit
       THEN SubSeq(all_words, Len(all_words) - ContextLimit + 1, Len(all_words))
       ELSE all_words

\* a loop of FullScore calls over words, from (state, log_prob)
RECURSIVE ScoreWords(_, _, _, _)
ScoreWords(words, i, state, log_prob) ==
    IF i > Len(words) THEN [state |-> state, log_prob |-> log_prob]
    ELSE LET ret == FullScore(state, LMIndex(words[i]))
         IN ScoreWords(words, i + 1, ret.out_state, log_prob + ret.prob)

\* the position in context_words at which the replay of the context throws a
\* std::exception; 0 when it does not.  Nothing is replayed without a model
\* or with an empty text.
ReplayFailures(kenLM, text) ==
    IF kenLM /\ text # << >> THEN 0..Len(ContextWords(text)) ELSE {0}

\* the replay left where the exception found it: the words before failAt
\* are in initial_state and initial_log_prob
ContextAfterThrowKept(words, failAt) ==
    ScoreWords(SubSeq(words, 1, failAt - 1), 1, BeginSentenceState, 0)
\* the catch block of the replay: both are reset
ContextAfterThrow(words, failAt) ==
    [state |-> BeginSentenceState, log_prob |-> 0]

\* Step 1 of RankCandidates: initial_state and initial_log_prob, with the
\* position at which the replay threw
InitialContext(kenLM, text, failAt) ==
    IF kenLM /\ text # << >>
    THEN LET context_words == ContextWords(text)
         IN IF failAt \in 1..Len(context_words)
            THEN LET reset == ContextAfterThrow(context_words, failAt)
                 IN [state |-> reset.state, log_prob |-> reset.log_prob,
                     failAt |-> failAt]
            ELSE LET done == ScoreWords(context_words, 1, BeginSentenceState, 0)
                 IN [state |-> done.state, log_prob |-> done.log_prob,
                     failAt |-> 0]
    ELSE [state |-> BeginSentenceState, log_prob |-> 0, failAt |-> 0]

\* the LM score RankCandidates gives one candidate word: the candidate from
\* the context state, then the end of sentence with out_state as both the
\* input and the output of FullScore
CandidateLMScore(kenLM, ctx, word, alias) ==
    IF ~kenLM THEN ctx.log_prob
    ELSE LET ret == FullScore(ctx.state, LMIndex(word))
             eos == FullScoreAliased(ret.out_state, LMEos, alias)
         IN (ctx.log_prob + ret.prob) + eos.prob

\* TextInputEngine::EvaluateSequence: from the begin-sentence state through
\* every non-empty word, plus the end-of-sentence score
RECURSIVE DropEmpty(_)
DropEmpty(words) ==
    IF words = << >> THEN << >>
    ELSE IF Head(words) = << >> THEN DropEmpty(Tail(words))
         ELSE <<Head(words)>> \o DropEmpty(Tail(words))

EvaluateSequence(kenLM, words) ==
    IF ~kenLM THEN 0
    ELSE LET r == ScoreWords(DropEmpty(words), 1, BeginSentenceState, 0)
         IN r.log_prob + FullScore(r.state, LMEos).prob

(***************************************************************************)
(* TextInputEngine::RankCandidates                                         *)
(***************************************************************************)
\* Step 2: candidate_words and lm_scores, clusters in ascending id order,
\* clusters missing from the vocabulary skipped, first occurrence of a word kept
RECURSIVE CollectWords(_, _, _, _, _, _)
CollectWords(words, wi, kenLM, ctx, alias, st) ==
    IF wi > Len(words) THEN st
    ELSE IF words[wi] \in st.seen
         THEN CollectWords(words, wi + 1, kenLM, ctx, alias, st)
         ELSE CollectWords(words, wi + 1, kenLM, ctx, alias,
                  [seen |-> st.seen \cup {words[wi]},
                   candidate_words |-> Append(st.candidate_words, words[wi]),
                   lm_scores |-> Append(st.lm_scores,
                                        CandidateLMScore(kenLM, ctx, words[wi],
                                                         alias))])

RECURSIVE CollectClusters(_, _, _, _, _, _, _)
CollectClusters(ids, ci, vocab, kenLM, ctx, alias, st) ==
    IF ci > Len(ids) THEN st
    ELSE IF ~VocabHas(vocab, ids[ci])
         THEN CollectClusters(ids, ci + 1, vocab, kenLM, ctx, alias, st)
         ELSE CollectClusters(ids, ci + 1, vocab, kenLM, ctx, alias,
                  CollectWords(vocab.map[ids[ci]], 1, kenLM, ctx, alias, st))

CollectCandidates(candidates, vocab, kenLM, ctx, alias) ==
    CollectClusters(MapKeys(candidates), 1, vocab, kenLM, ctx, alias,
                    [seen |-> {}, candidate_words |-> << >>, lm_scores |-> << >>])

\* Fallback: the distance of a candidate is that of the first cluster, in
\* ascending id order, whose word list holds it; m_vocab->at throws
\* std::out_of_range on a cluster the vocabulary lacks
RECURSIVE FallbackDistance(_, _, _, _, _)
FallbackDistance(word, candidates, ids, ci, vocab) ==
    IF ci > Len(ids) THEN [threw |-> FALSE, dist |-> 0]
    ELSE IF ~VocabHas(vocab, ids[ci]) THEN [threw |-> TRUE, dist |-> 0]
         ELSE IF SeqContains(vocab.map[ids[ci]], word)
              THEN [threw |-> FALSE, dist |-> candidates[ids[ci]]]
              ELSE FallbackDistance(word, candidates, ids, ci + 1, vocab)

\* score = lm_scores[i] - 0.5f * faiss_distance, kept doubled to stay integral
FallbackScore2(lm_score, faiss_distance) == 2 * lm_score - faiss_distance

\* the loop over candidate_words; max_score starts at -infinity (has_max FALSE)
RECURSIVE FallbackLoop(_, _, _, _, _, _)
FallbackLoop(candidate_words, lm_scores, candidates, vocab, i, st) ==
    IF st.threw \/ i > Len(candidate_words) THEN st
    ELSE LET d == FallbackDistance(candidate_words[i], candidates,
                                   MapKeys(candidates), 1, vocab)
             score2 == FallbackScore2(lm_scores[i], d.dist)
         IN IF d.threw THEN [st EXCEPT !.threw = TRUE]
            ELSE FallbackLoop(candidate_words, lm_scores, candidates, vocab, i + 1,
                     IF ~st.has_max \/ score2 > st.max_score2
                     THEN [st EXCEPT !.has_max = TRUE, !.max_score2 = score2,
                                     !.selected_word = candidate_words[i],
                                     !.distances = Append(@, d.dist)]
                     ELSE [st EXCEPT !.distances = Append(@, d.dist)])

Fallback(candidate_words, lm_scores, candidates, vocab) ==
    FallbackLoop(candidate_words, lm_scores, candidates, vocab, 1,
                 [threw |-> FALSE, has_max |-> FALSE, max_score2 |-> 0,
                  selected_word |-> EmptyString, distances |-> << >>])

\* RankCandidates returned before its step 1
NoContext == [failAt |-> -1]

\* the record RankCandidates leaves behind
RankRecord(outcome, word, branch, cw, ls, temp, scores, indices, dists, ctx) ==
    [outcome |-> outcome, word |-> word, branch |-> branch,
     candidate_words |-> cw, lm_scores |-> ls, features |-> temp,
     scores |-> scores, indices |-> indices, fallback_distances |-> dists,
     context |-> ctx]

\* All results RankCandidates can have.  failAt is where the replay of the
\* context threw (0: nowhere).  gbm = [threw, scoreAt] is what the
\* loaded ranker model does: predict() throws, or scores candidate i with
\* scoreAt[i].  alias is what the build makes of the aliased FullScore call.
\* outcome is "threw" when an exception leaves RankCandidates.
RankCandidatesWith(swipePath, candidates, vocab, keys, kenLM, lightGBM, text, gbm, alias, failAt) ==
    IF vocab.null \/ keys.null
    THEN { RankRecord("returned", EmptyString, "no vocabulary",
                      << >>, << >>, << >>, << >>, << >>, << >>, NoContext) }
    ELSE IF DOMAIN candidates = {}
    THEN { RankRecord("returned", EmptyString, "no candidates",
                      << >>, << >>, << >>, << >>, << >>, << >>, NoContext) }
    ELSE
    LET ctx == InitialContext(kenLM, text, failAt)
        col == CollectCandidates(candidates, vocab, kenLM, ctx, alias)
        cw == col.candidate_words
        ls == col.lm_scores
    IN IF cw = << >>
       THEN { RankRecord("returned", EmptyString, "no words",
                         cw, ls, << >>, << >>, << >>, << >>, ctx) }
       ELSE IF lightGBM
       THEN LET feats == compute_all_features(swipePath, candidates, vocab, keys, ls, cw)
            IN IF feats.threw
               THEN { RankRecord("returned", EmptyString, "features threw",
                                 cw, ls, << >>, << >>, << >>, << >>, ctx) }
               ELSE LET scores == [i \in 1..Len(feats.temp) |-> gbm.scoreAt[i]]
                        raw == [threw |-> gbm.threw, n |-> Len(feats.temp),
                                scores |-> scores]
                    IN { IF r.threw
                         THEN RankRecord("returned", EmptyString, "ranker threw",
                                         cw, ls, feats.temp, << >>, << >>, << >>, ctx)
                         ELSE RankRecord("returned",
                                         IF r.indices = << >> THEN EmptyString
                                         ELSE feats.temp[r.indices[1]].word,
                                         "ranker", cw, ls, feats.temp, scores,
                                         r.indices, << >>, ctx)
                         : r \in rank_candidates_outcomes(raw) }
       ELSE LET fb == Fallback(cw, ls, candidates, vocab)
            IN IF fb.threw
               THEN { RankRecord("threw", EmptyString, "fallback",
                                 cw, ls, << >>, << >>, << >>, << >>, ctx) }
               ELSE { RankRecord("returned", fb.selected_word, "fallback",
                                 cw, ls, << >>, << >>, << >>, fb.distances, ctx) }

RankCandidatesOutcomes(swipePath, candidates, vocab, keys, kenLM, lightGBM, text, gbm) ==
    UNION { RankCandidatesWith(swipePath, candidates, vocab, keys, kenLM,
                               lightGBM, text, gbm, alias, failAt) :
                alias \in AliasOutcomes, failAt \in ReplayFailures(kenLM, text) }

(***************************************************************************)
(* TextInputEngine: Initialize and its loaders                             *)
(***************************************************************************)
NoRecord == [kind |-> "none"]

\* LoadVocabulary: the file must exist, then m_vocab and m_vocabKeys take
\* whatever load_vocab returns
LoadVocabulary(file) ==
    IF ~file.exists
    THEN [ok |-> FALSE, vocab |-> m_vocab, keys |-> m_vocabKeys]
    ELSE LET pair == load_vocab(file)
         IN [ok |-> ~pair.vocab.null /\ ~pair.keys.null,
             vocab |-> pair.vocab, keys |-> pair.keys]

\* LoadFaissIndex: file "missing" leaves the pointer alone, a file that is
\* not an IndexFlatIP ("wrongtype") stores nullptr
LoadFaissIndex(index) ==
    IF index = "missing" THEN [ok |-> FALSE, ptr |-> m_faissIndex]
    ELSE [ok |-> index = "ok", ptr |-> index = "ok"]

\* LoadLightGBM: a failed load_model deletes the ranker and stores nullptr
LoadLightGBM(lgbm) == [ok |-> lgbm = "ok", ptr |-> lgbm = "ok"]

\* a = [encoder, vocab, index, kenlm, lgbm]: the artifacts under assetsPath.
\* encoder: "ok" | "bad"; vocab: a file [exists, readable, content];
\* index: "ok" | "missing" | "wrongtype"; kenlm, lgbm: "ok" | "absent" | "bad"
KenLMFatal(a) == a.kenlm = "bad"
InitializeSteps(a) ==
    LET voc == LoadVocabulary(a.vocab)
        idx == LoadFaissIndex(a.index)
        gbm == LoadLightGBM(a.lgbm)
    IN IF a.encoder # "ok"
       THEN [ret |-> FALSE, enc |-> m_swipeEncoder, vocab |-> m_vocab,
             keys |-> m_vocabKeys, index |-> m_faissIndex, lm |-> m_kenLM,
             gbm |-> m_lightGBM, init |-> m_initialized]
       ELSE IF ~voc.ok
       THEN [ret |-> FALSE, enc |-> TRUE, vocab |-> voc.vocab,
             keys |-> voc.keys, index |-> m_faissIndex, lm |-> m_kenLM,
             gbm |-> m_lightGBM, init |-> m_initialized]
       ELSE IF ~idx.ok
       THEN [ret |-> FALSE, enc |-> TRUE, vocab |-> voc.vocab,
             keys |-> voc.keys, index |-> idx.ptr, lm |-> m_kenLM,
             gbm |-> m_lightGBM, init |-> m_initialized]
       ELSE IF KenLMFatal(a)
       THEN [ret |-> FALSE, enc |-> TRUE, vocab |-> voc.vocab,
             keys |-> voc.keys, index |-> idx.ptr, lm |-> m_kenLM,
             gbm |-> m_lightGBM, init |-> m_initialized]
       ELSE [ret |-> TRUE, enc |-> TRUE, vocab |-> voc.vocab,
             keys |-> voc.keys, index |-> idx.ptr,
             lm |-> IF a.kenlm = "ok" THEN TRUE ELSE m_kenLM,
             gbm |-> IF a.lgbm = "absent" THEN m_lightGBM ELSE gbm.ptr,
             init |-> TRUE]

Initialize(a) ==
    /\ initCall.kind = "none" /\ req.kind = "none"
    /\ LET r == InitializeSteps(a)
       IN /\ m_swipeEncoder' = r.enc
          /\ m_vocab' = r.vocab
          /\ m_vocabKeys' = r.keys
          /\ m_faissIndex' = r.index
          /\ m_kenLM' = r.lm
          /\ m_lightGBM' = r.gbm
          /\ m_initialized' = r.init
          /\ initCall' = [kind |-> "initialize", ret |-> r.ret,
                          encoder |-> a.encoder,
                          vocab |-> IF ~a.vocab.exists THEN "missing"
                                    ELSE IF ~a.vocab.readable THEN "unreadable"
                                    ELSE "ok",
                          index |-> a.index, kenlm |-> a.kenlm, lgbm |-> a.lgbm]
    /\ UNCHANGED <<m_currentText, m_wordHistory, req>>
    /\ UNCHANGED <<dtwVars, rankVars, lmVars, editVars, featVars, encVars, viewVars>>

(***************************************************************************)
(* TextInputEngine::PredictFromSwipe                                       *)
(***************************************************************************)
\* EncodeSwipe: the empty vector without a session, for an empty path or on
\* an ONNX exception (run = "error"), else the model's output vector
EncodeSwipeNoEmptyCheck(swipePath, run) ==
    IF ~m_swipeEncoder THEN "empty"
    ELSE IF run = "error" THEN "empty"
    ELSE "vector"
EncodeSwipe(swipePath, run) ==
    IF ~m_swipeEncoder THEN "empty"
    ELSE IF swipePath = << >> THEN "empty"
    ELSE IF run = "error" THEN "empty"
    ELSE "vector"

\* SearchVocabulary: no search without an index or for an empty embedding
SearchVocabulary(embedding, hits) ==
    IF ~m_faissIndex THEN << >>
    ELSE IF embedding = "empty" THEN << >>
    ELSE search_faiss_index(hits)

NoRank == [outcome |-> "not run"]

\* what the loaded ranker model does in one request
CandidateBound == 2
GbmBehaviours == [threw : BOOLEAN, scoreAt : [1..CandidateBound -> {0, 1}]]
GbmRuns == { g \in GbmBehaviours : g.threw => \A i \in 1..CandidateBound : g.scoreAt[i] = 0 }
NoGbm == [threw |-> FALSE, scoreAt |-> [i \in 1..CandidateBound |-> 0]]


\* what a call of PredictFromSwipe leaves behind, for every outcome it can have
PredictFromSwipeReturns(swipePath, run, hits, gbm) ==
    IF ~m_initialized \/ swipePath = << >>
    THEN { [kind |-> "predict", path |-> swipePath,
            stage |-> IF ~m_initialized THEN "not initialized"
                      ELSE "empty path",
            embedding |-> "none", hits |-> << >>, candidates |-> << >>,
            rank |-> NoRank, outcome |-> "returned",
            result |-> EmptyString] }
    ELSE LET embedding == EncodeSwipe(swipePath, run)
             searched == m_faissIndex /\ embedding # "empty"
             candidates == SearchVocabulary(embedding, hits)
         IN { [kind |-> "predict", path |-> swipePath,
               stage |-> "ranked", embedding |-> embedding,
               hits |-> IF searched THEN hits ELSE << >>,
               candidates |-> candidates, rank |-> rc,
               outcome |-> rc.outcome,
               result |-> IF rc.outcome = "returned" THEN rc.word
                          ELSE EmptyString] :
              rc \in RankCandidatesOutcomes(swipePath, candidates, m_vocab,
                         m_vocabKeys, m_kenLM, m_lightGBM, m_currentText, gbm) }

\* the request record of an entry point: r of PredictFromSwipe, the entry
\* point called and the list it returns (PredictTopKFromSwipe only)
RequestRecord(r, api, results) ==
    [kind |-> r.kind, path |-> r.path, stage |-> r.stage,
     embedding |-> r.embedding, hits |-> r.hits, candidates |-> r.candidates,
     rank |-> r.rank, outcome |-> r.outcome, result |-> r.result,
     api |-> api, results |-> results]

PredictFromSwipe(swipePath, run, hits, gbm) ==
    /\ initCall.kind = "none" /\ req.kind = "none"
    /\ m_lightGBM \/ gbm = NoGbm
    /\ \E r \in PredictFromSwipeReturns(swipePath, run, hits, gbm) :
           req' = RequestRecord(r, "PredictFromSwipe", << >>)
    /\ UNCHANGED <<m_initialized, m_swipeEncoder, m_faissIndex, m_kenLM,
                   m_lightGBM, m_vocab, m_vocabKeys, m_currentText, m_wordHistory,
                   initCall>>
    /\ UNCHANGED <<dtwVars, rankVars, lmVars, editVars, featVars, encVars, viewVars>>

\* PredictTopKFromSwipe: the single prediction of PredictFromSwipe, as a
\* list that is empty when the prediction is the empty string
PredictTopKFromSwipe(swipePath, run, hits, gbm) ==
    /\ initCall.kind = "none" /\ req.kind = "none"
    /\ m_lightGBM \/ gbm = NoGbm
    /\ \E r \in PredictFromSwipeReturns(swipePath, run, hits, gbm) :
           req' = RequestRecord(r, "PredictTopKFromSwipe",
                                IF r.outcome = "returned" /\ r.result # EmptyString
                                THEN <<r.result>> ELSE << >>)
    /\ UNCHANGED <<m_initialized, m_swipeEncoder, m_faissIndex, m_kenLM,
                   m_lightGBM, m_vocab, m_vocabKeys, m_currentText, m_wordHistory,
                   initCall>>
    /\ UNCHANGED <<dtwVars, rankVars, lmVars, editVars, featVars, encVars, viewVars>>

\* the call has returned to the event loop; its record is dropped
ReturnToCaller ==
    /\ initCall.kind # "none" \/ req.kind # "none"
    /\ initCall' = NoRecord
    /\ req' = NoRecord
    /\ UNCHANGED <<m_initialized, m_swipeEncoder, m_faissIndex, m_kenLM,
                   m_lightGBM, m_vocab, m_vocabKeys, m_currentText, m_wordHistory>>
    /\ UNCHANGED <<dtwVars, rankVars, lmVars, editVars, featVars, encVars, viewVars>>

(***************************************************************************)
(* Specification Spec: initialization with loadable required artifacts and *)
(* prediction requests over all vocabularies and search results            *)
(***************************************************************************)
ClusterIds == 0..MaxClusterId
WordLists == { <<wa>>, <<wx, wa>> }
VocabContents == UNION { [S -> WordLists] : S \in SUBSET ClusterIds }
Distances == {1, 2}
HitSets == UNION { [S -> Distances] : S \in SUBSET ClusterIds }
SwipePaths == { << >>, <<keyboard_coord("a")>>,
                <<keyboard_coord("x"), keyboard_coord("a")>> }
VocabFile(content) == [exists |-> TRUE, readable |-> TRUE, content |-> content]
MissingFile == [exists |-> FALSE, readable |-> FALSE, content |-> << >>]
UnreadableFile == [exists |-> TRUE, readable |-> FALSE, content |-> << >>]

\* every vocabulary with loadable required artifacts, and every combination
\* of artifact states with one vocabulary
LoadableAssets ==
    { [encoder |-> "ok", vocab |-> VocabFile(c), index |-> "ok",
       kenlm |-> k, lgbm |-> g] :
        c \in VocabContents, k \in {"ok", "absent"}, g \in {"ok", "absent"} }
SomeContent == [i \in {0, 1} |-> IF i = 0 THEN <<wa>> ELSE <<wx, wa>>]
ArtifactStates ==
    [encoder : {"ok", "bad"},
     vocab : {MissingFile, UnreadableFile, VocabFile(SomeContent)},
     index : {"ok", "missing", "wrongtype"},
     kenlm : {"ok", "absent", "bad"},
     lgbm : {"ok", "absent", "bad"}]
Assets == LoadableAssets \cup ArtifactStates

InitEngine ==
    /\ m_initialized = FALSE
    /\ m_swipeEncoder = FALSE
    /\ m_faissIndex = FALSE
    /\ m_kenLM = FALSE
    /\ m_lightGBM = FALSE
    /\ m_vocab = NullVocab
    /\ m_vocabKeys = NullKeys
    /\ m_currentText = << >>
    /\ m_wordHistory = << >>
    /\ initCall = NoRecord
    /\ req = NoRecord

IdleDTW ==
    /\ dtwA = << >>
    /\ dtwB = << >>
    /\ dtwWindow = 0
    /\ dtwRef = NoCall
    /\ dtwCall = NoCall

IdleRank ==
    /\ rankInput = [threw |-> FALSE, n |-> 0, scores |-> << >>]
    /\ sortTie = << >>
    /\ rankFirst = NoCall
    /\ rankSecond = NoCall
    /\ rankBest = NoCall

IdleLM == lmChain = NoCall
NoEdit == [kind |-> "none", before |-> EmptyString, text |-> EmptyString]
IdleEdit == lastEdit = NoEdit
IdleFeat == featIn = << >> /\ featOut = NoCall
IdleEnc == encPath = << >> /\ encInput = NoCall
\* KeyboardView as its constructor leaves it
IdleView ==
    /\ m_inputMode = "LetterByLetter"
    /\ m_recordingSwipe = FALSE
    /\ m_swipePath = << >>
    /\ m_currentHoveredKey = "none"
    /\ swipeCompleted = NoCall

Init == InitEngine /\ IdleDTW /\ IdleRank /\ IdleLM /\ IdleEdit /\ IdleFeat /\ IdleEnc /\ IdleView

Next ==
    \/ \E a \in Assets : Initialize(a)
    \/ \E p \in SwipePaths, run \in {"ok", "error"}, h \in HitSets, g \in GbmRuns :
              PredictFromSwipe(p, run, h, g)
    \/ ReturnToCaller

Spec == Init /\ [][Next]_vars

(***************************************************************************)
(* Properties of Spec                                                      *)
(***************************************************************************)
Ranked == req.kind = "predict" /\ req.stage = "ranked"
CandidateWords == req.rank.candidate_words
HasCandidates ==
    /\ Ranked
    /\ req.rank.branch \notin {"no vocabulary", "no candidates"}
    /\ CandidateWords # << >>

\* the clusters of the search result that the vocabulary knows and that list w
ClustersOf(w) ==
    { c \in (DOMAIN req.candidates) \cap (DOMAIN m_vocab.map) :
        SeqContains(m_vocab.map[c], w) }
\* the cluster a candidate is attributed to: the first one encountered
AttributedCluster(w) == CHOOSE c \in ClustersOf(w) : \A d \in ClustersOf(w) : c <= d
\* the nearest cluster of a candidate, ties in id order
NearestCluster(w) ==
    CHOOSE c \in ClustersOf(w) : \A d \in ClustersOf(w) :
        \/ req.candidates[c] < req.candidates[d]
        \/ (req.candidates[c] = req.candidates[d] /\ c <= d)
\* 1-based position of cluster c in the nearest-first answer of the index
NearestRank(c) ==
    Cardinality({ d \in DOMAIN req.candidates :
                    \/ req.candidates[d] < req.candidates[c]
                    \/ (req.candidates[d] = req.candidates[c] /\ d <= c) })

\* twice (lmLogProb - 0.5 * embeddingDistance) of candidate i
SpecScore2(i) ==
    2 * req.rank.lm_scores[i] - req.candidates[AttributedCluster(CandidateWords[i])]
BestCandidate ==
    CHOOSE i \in 1..Len(CandidateWords) :
        \A j \in 1..Len(CandidateWords) :
            \/ SpecScore2(i) > SpecScore2(j)
            \/ (SpecScore2(i) = SpecScore2(j) /\ i <= j)

\* C1: without a ranker model and with a non-empty candidate set,
\* RankCandidates returns the earliest candidate that maximises
\* lmLogProb - 0.5 * embeddingDistance, a non-empty word of the set.
C1_FallbackReturnsBest ==
    (HasCandidates /\ ~m_lightGBM) =>
        /\ req.outcome = "returned"
        /\ req.result # EmptyString
        /\ SeqContains(CandidateWords, req.result)
        /\ req.result = CandidateWords[BestCandidate]

\* a stage of the request failed
StageFailed ==
    /\ Ranked
    /\ \/ req.embedding = "empty"
       \/ DOMAIN req.candidates = {}
       \/ req.rank.branch \in {"features threw", "ranker threw"}

\* C2: every prediction request returns, no exception escapes, and a request
\* with a failed stage returns the empty result, with the ranker and with
\* the fallback scorer.
C2_NoFailurePropagates ==
    req.kind = "predict" =>
        /\ req.outcome = "returned"
        /\ StageFailed => req.result = EmptyString

\* C3: Initialize returns true, with the engine marked initialized, exactly
\* when the encoder, the vocabulary and the index load; the language model
\* and the ranker never decide.
C3_InitializeIffRequired ==
    initCall.kind = "initialize" =>
        /\ initCall.ret <=> (/\ initCall.encoder = "ok"
                             /\ initCall.vocab = "ok"
                             /\ initCall.index = "ok")
        /\ initCall.ret => m_initialized

NoDuplicates(seq) == \A i, j \in 1..Len(seq) : i # j => seq[i] # seq[j]

\* C4: a word occurs once in the candidate set and carries the distance and
\* the rank of the nearest of the clusters that list it.
C4_NearestClusterWins ==
    HasCandidates =>
        /\ NoDuplicates(CandidateWords)
        /\ \A i \in 1..Len(req.rank.features) :
              LET f == req.rank.features[i]
              IN /\ f.faiss_distance = req.candidates[NearestCluster(f.word)]
                 /\ f.faiss_rank = NearestRank(NearestCluster(f.word))
        /\ \A i \in 1..Len(req.rank.fallback_distances) :
              req.rank.fallback_distances[i]
                  = req.candidates[NearestCluster(CandidateWords[i])]

\* C10: every cluster id of the loaded vocabulary has its word list, and its
\* canonical form vocabKeys[id] is the first word of the list.
C10_CanonicalForm ==
    (~m_vocab.null /\ ~m_vocabKeys.null) =>
        \A id \in DOMAIN m_vocab.map :
            /\ Len(m_vocab.map[id]) > 0
            /\ KeysHas(m_vocabKeys, id)
            /\ KeysAt(m_vocabKeys, id) = m_vocab.map[id][1]

\* C11: the clusters of a search result are consumed in ascending distance
\* order: a candidate with a smaller embedding rank has a distance less than
\* or equal to that of a candidate with a greater rank, and clusters at equal
\* distance are ranked in cluster-id order.
C11_AscendingDistanceOrder ==
    Ranked =>
        \A i, j \in 1..Len(req.rank.features) :
            LET f == req.rank.features[i]
                g == req.rank.features[j]
            IN f.faiss_rank < g.faiss_rank =>
                  /\ f.faiss_distance <= g.faiss_distance
                  /\ f.faiss_distance = g.faiss_distance =>
                        AttributedCluster(f.word) < AttributedCluster(g.word)

\* C19: without a language model every candidate of a request has LM score
\* 0, and a request with a non-empty candidate set and no failed stage
\* returns one of its candidates.
C19_NoLanguageModel ==
    (HasCandidates /\ ~m_kenLM) =>
        /\ \A i \in 1..Len(req.rank.lm_scores) : req.rank.lm_scores[i] = 0
        /\ ~StageFailed =>
              /\ req.outcome = "returned"
              /\ req.result # EmptyString
              /\ SeqContains(CandidateWords, req.result)

(***************************************************************************)
(* TextInputEngine: text entry                                             *)
(***************************************************************************)
\* position of the last space of text, 0 when there is none
LastSpace(text) ==
    IF \E i \in 1..Len(text) : text[i] = " "
    THEN CHOOSE i \in 1..Len(text) :
             text[i] = " " /\ \A j \in (i + 1)..Len(text) : text[j] # " "
    ELSE 0

AppendCharacter(c) ==
    /\ initCall.kind = "none" /\ req.kind = "none"
    /\ Len(m_currentText) < MaxTextLen
    /\ m_currentText' = Append(m_currentText, c)
    /\ IF c = " "
       THEN LET without == m_currentText
                lastWord == SubSeq(without, LastSpace(without) + 1, Len(without))
            IN m_wordHistory' = IF lastWord # << >>
                                THEN Append(m_wordHistory, lastWord)
                                ELSE m_wordHistory
       ELSE UNCHANGED m_wordHistory
    /\ UNCHANGED <<m_initialized, m_swipeEncoder, m_faissIndex, m_kenLM, m_lightGBM,
                   m_vocab, m_vocabKeys, initCall, req>>
    /\ lastEdit' = [kind |-> "AppendCharacter", before |-> m_currentText, text |-> <<c>>]
    /\ UNCHANGED <<dtwVars, rankVars, lmVars, featVars, encVars, viewVars>>

AppendText(text) ==
    /\ initCall.kind = "none" /\ req.kind = "none"
    /\ Len(m_currentText) + Len(text) <= MaxTextLen
    /\ m_currentText' = m_currentText \o text
    /\ m_wordHistory' = IF SeqContains(text, " ")
                        THEN m_wordHistory \o SplitWords(text, 1, << >>, << >>)
                        ELSE m_wordHistory
    /\ UNCHANGED <<m_initialized, m_swipeEncoder, m_faissIndex, m_kenLM, m_lightGBM,
                   m_vocab, m_vocabKeys, initCall, req>>
    /\ lastEdit' = [kind |-> "AppendText", before |-> m_currentText, text |-> text]
    /\ UNCHANGED <<dtwVars, rankVars, lmVars, featVars, encVars, viewVars>>

\* lastEdit keeps the text before this call and the edit that preceded it
DeleteLastWord ==
    /\ initCall.kind = "none" /\ req.kind = "none"
    /\ LET lastSpace == LastSpace(m_currentText)
       IN m_currentText' = IF lastSpace # 0
                           THEN SubSeq(m_currentText, 1, lastSpace)
                           ELSE EmptyString
    /\ m_wordHistory' = IF m_wordHistory # << >>
                        THEN SubSeq(m_wordHistory, 1, Len(m_wordHistory) - 1)
                        ELSE m_wordHistory
    /\ lastEdit' = [kind |-> "DeleteLastWord", before |-> m_currentText,
                    text |-> EmptyString,
                    previous |-> [kind |-> lastEdit.kind, before |-> lastEdit.before,
                                  text |-> lastEdit.text]]
    /\ UNCHANGED <<m_initialized, m_swipeEncoder, m_faissIndex, m_kenLM, m_lightGBM,
                   m_vocab, m_vocabKeys, initCall, req>>
    /\ UNCHANGED <<dtwVars, rankVars, lmVars, featVars, encVars, viewVars>>

(***************************************************************************)
(* TextInputEngine: incremental evaluation with an explicit state          *)
(***************************************************************************)
\* C28: whatever Initialize calls and requests have run, an engine that
\* reports IsInitialized() has a vocabulary map, a canonical-form table and a
\* vector index.
C28_InitializedHasRequiredComponents ==
    m_initialized => (~m_vocab.null /\ ~m_vocabKeys.null /\ m_faissIndex)

\* a null state pointer
NullState == << >>

GetBeginSentenceState(kenLM) ==
    IF kenLM THEN BeginSentenceState ELSE NullState

\* EvaluateIncremental: initialState is copied into in_state, the words are
\* scored from it, the end-of-sentence score is added, and the state after
\* the end of sentence is returned
EvaluateIncremental(kenLM, words, initialLogProb, initialState) ==
    IF ~kenLM THEN [logProb |-> initialLogProb, state |-> NullState]
    ELSE LET in_state == IF initialState # NullState THEN initialState
                         ELSE BeginSentenceState
             r == ScoreWords(DropEmpty(words), 1, in_state, initialLogProb)
             eos == FullScore(r.state, LMEos)
         IN [logProb |-> r.log_prob + eos.prob, state |-> eos.out_state]

\* Example 3 of the KenLM integration document: the history from the
\* begin-sentence state, then one candidate from the returned result.
\* initialState is read through a copy, so the caller's object keeps its value.
RankingPipeline(history, candidate) ==
    /\ initCall.kind = "none" /\ req.kind = "none"
    /\ lmChain = NoCall
    /\ LET state == GetBeginSentenceState(m_kenLM)
           historyResult == EvaluateIncremental(m_kenLM, history, 0, state)
           result == EvaluateIncremental(m_kenLM, <<candidate>>,
                                         historyResult.logProb, historyResult.state)
       IN lmChain' = [kind |-> "pipeline", history |-> history,
                      candidate |-> candidate,
                      state |-> state, stateAfter |-> state,
                      historyResult |-> historyResult, result |-> result]
    /\ UNCHANGED <<engineVars, dtwVars, rankVars, editVars, featVars, encVars, viewVars>>

PipelineReturns ==
    /\ lmChain # NoCall
    /\ lmChain' = NoCall
    /\ UNCHANGED <<engineVars, dtwVars, rankVars, editVars, featVars, encVars, viewVars>>

(***************************************************************************)
(* Specification SpecLM: text entry and language-model scoring of requests *)
(***************************************************************************)
LMAssets ==
    { [encoder |-> "ok", vocab |-> VocabFile(SomeContent), index |-> "ok",
       kenlm |-> k, lgbm |-> "absent"] : k \in {"ok", "absent"} }
LMHits == [i \in {0, 1} |-> i + 1]
LMPath == <<keyboard_coord("a")>>

LMHistories == {<< >>, <<wa>>, <<wx, wa>>}

NextLM ==
    \/ lmChain = NoCall /\ \E a \in LMAssets : Initialize(a)
    \/ lmChain = NoCall /\ \E c \in {"a", " "} : AppendCharacter(c)
    \/ lmChain = NoCall /\ AppendText(wx \o <<" ">>)
    \/ lmChain = NoCall /\ DeleteLastWord
    \/ lmChain = NoCall /\ PredictFromSwipe(LMPath, "ok", LMHits, NoGbm)
    \/ lmChain = NoCall /\ ReturnToCaller
    \/ \E h \in LMHistories, c \in {wa, wx} : RankingPipeline(h, c)
    \/ PipelineReturns

SpecLM == Init /\ [][NextLM]_vars

AllWords(text) == SplitWords(text, 1, << >>, << >>)

\* C5: for a text of at most 4 words the LM score of every candidate w of a
\* request equals EvaluateSequence of the words of the text followed by w.
C5_ContextReplayEqualsSequence ==
    (HasCandidates /\ m_kenLM /\ Len(AllWords(m_currentText)) <= ContextLimit) =>
        \A i \in 1..Len(CandidateWords) :
            req.rank.lm_scores[i]
                = EvaluateSequence(m_kenLM, AllWords(m_currentText) \o <<CandidateWords[i]>>)

\* the score of word w as one extension of the context of the last 4 words
\* of text, plus the end-of-sequence score after w
ExtensionScore(text, w) ==
    LET ctx == ScoreWords(ContextWords(text), 1, BeginSentenceState, 0)
        ext == FullScore(ctx.state, LMIndex(w))
    IN (ctx.log_prob + ext.prob) + FullScore(ext.out_state, LMEos).prob

\* C22: with a language model, every candidate of a request is scored as
\* one extension of the one context of the last 4 words of the current text
\* plus the end-of-sequence score, so its score is a function of the text and
\* the word alone, whichever other candidates are scored and in whatever order
\* (requests whose context replay did not throw).
C22_SharedContextUnmodified ==
    (HasCandidates /\ m_kenLM /\ req.rank.context.failAt = 0) =>
        \A i \in 1..Len(CandidateWords) :
            req.rank.lm_scores[i] = ExtensionScore(m_currentText, CandidateWords[i])

\* the scores a candidate word can get from the begin-sentence state with
\* log-probability 0
ScoresFromBeginState(w) ==
    { CandidateLMScore(TRUE, [state |-> BeginSentenceState, log_prob |-> 0],
                       w, alias) : alias \in AliasOutcomes }

\* C23: when the replay of the context words throws part-way, the context
\* every candidate of the request is scored from is the begin-sentence state
\* with log-probability 0, with nothing of the words replayed before the
\* failure left in it.
C23_FailedReplayResetsContext ==
    (HasCandidates /\ req.rank.context.failAt >= 1) =>
        /\ req.rank.context.state = BeginSentenceState
        /\ req.rank.context.log_prob = 0
        /\ \A i \in 1..Len(CandidateWords) :
               req.rank.lm_scores[i] \in ScoresFromBeginState(CandidateWords[i])

\* a request whose replay threw at the second of two context words
C23_Witness ==
    /\ HasCandidates
    /\ req.rank.context.failAt = 2
    /\ Len(ContextWords(m_currentText)) >= 2
    /\ ScoreWords(SubSeq(ContextWords(m_currentText), 1, 1), 1,
                  BeginSentenceState, 0).log_prob # 0

\* C17: the two chained EvaluateIncremental calls give the log-probability
\* EvaluateSequence gives for the history followed by the candidate, and the
\* state passed as initialState is not modified.
C17_IncrementalEqualsSequence ==
    lmChain.kind = "pipeline" =>
        /\ lmChain.result.logProb
              = EvaluateSequence(m_kenLM, lmChain.history \o <<lmChain.candidate>>)
        /\ lmChain.stateAfter = lmChain.state

\* C18: DeleteLastWord right after AppendText(w + " "), w a non-empty word
\* without spaces, leaves the current text equal to the text before the append.
C18_DeleteLastWordUndoesAppendText ==
    (/\ lastEdit.kind = "DeleteLastWord"
     /\ lastEdit.previous.kind = "AppendText"
     /\ \E w \in {wa, wx} : lastEdit.previous.text = w \o <<" ">>)
        => m_currentText = lastEdit.previous.before

(***************************************************************************)
(* Specification SpecRank: LightGBMRanker::rank_candidates on bounded      *)
(* score vectors                                                           *)
(***************************************************************************)
ScoreValues == {0, 1, 2}
RankInputs ==
    { [threw |-> FALSE, n |-> Len(sc), scores |-> sc] :
          sc \in SeqsUpTo(ScoreValues, MaxRanked) }
        \cup { [threw |-> TRUE, n |-> k, scores |-> << >>] : k \in 0..MaxRanked }

InitRank ==
    /\ InitEngine
    /\ IdleDTW
    /\ IdleLM /\ IdleEdit /\ IdleFeat /\ IdleEnc /\ IdleView
    /\ rankBest = NoCall
    /\ rankInput \in RankInputs
    /\ sortTie \in Permutations1(MaxRanked)
    /\ rankFirst = NoCall
    /\ rankSecond = NoCall

RankFirst ==
    /\ rankFirst = NoCall
    /\ rankFirst' = [kind |-> "rank", ret |-> rank_candidates(rankInput, sortTie)]
    /\ UNCHANGED <<rankInput, sortTie, rankSecond, rankBest>>
    /\ UNCHANGED <<engineVars, dtwVars, lmVars, editVars, featVars, encVars, viewVars>>

RankSecond ==
    /\ rankFirst # NoCall /\ rankSecond = NoCall
    /\ rankSecond' = [kind |-> "rank", ret |-> rank_candidates(rankInput, sortTie)]
    /\ UNCHANGED <<rankInput, sortTie, rankFirst, rankBest>>
    /\ UNCHANGED <<engineVars, dtwVars, lmVars, editVars, featVars, encVars, viewVars>>

NextRank == RankFirst \/ RankSecond

SpecRank == InitRank /\ [][NextRank]_vars

IsDescending(scores, r) ==
    /\ r \in Permutations1(Len(scores))
    /\ \A i, j \in 1..Len(scores) : i < j => scores[r[i]] >= scores[r[j]]
IsStable(scores, r) ==
    \A i, j \in 1..Len(scores) :
        (i < j /\ scores[r[i]] = scores[r[j]]) => r[i] < r[j]

\* C9: rank_candidates returns a permutation of the indices in descending
\* score order in which equal scores keep their candidate-set order, and a
\* repeated call returns the same order.
C9_StableDeterministicOrder ==
    /\ (rankFirst # NoCall /\ ~rankFirst.ret.threw) =>
          /\ IsDescending(rankInput.scores, rankFirst.ret.indices)
          /\ IsStable(rankInput.scores, rankFirst.ret.indices)
    /\ (rankSecond # NoCall) => rankSecond.ret = rankFirst.ret

(***************************************************************************)
(* Specification SpecDTW: dtw_multivariate applied to bounded paths         *)
(***************************************************************************)
DtwPoints == { <<0, 0>>, <<3, 0>>, <<0, 4>> }
DtwPaths == SeqsUpTo(DtwPoints, MaxPathLen)
DtwWindows == (0 - 1)..MaxWindow

InitDTW ==
    /\ InitEngine
    /\ IdleRank
    /\ IdleLM /\ IdleEdit /\ IdleFeat /\ IdleEnc /\ IdleView
    /\ dtwA \in DtwPaths
    /\ dtwB \in DtwPaths
    /\ dtwWindow \in DtwWindows
    /\ dtwRef = NoCall
    /\ dtwCall = NoCall

\* dtw_multivariate(A, B, window)
DtwReference ==
    /\ dtwRef = NoCall
    /\ dtwRef' = [kind |-> "ref", window |-> dtwWindow,
                  result |-> dtw_multivariate(dtwA, dtwB, dtwWindow)]
    /\ UNCHANGED <<dtwA, dtwB, dtwWindow, dtwCall>>
    /\ UNCHANGED <<engineVars, rankVars, lmVars, editVars, featVars, encVars, viewVars>>

\* dtw_multivariate(A, B, w) with another window
DtwForward(w) ==
    /\ dtwRef.kind = "ref" /\ dtwCall = NoCall
    /\ dtwCall' = [kind |-> "fwd", window |-> w,
                   result |-> dtw_multivariate(dtwA, dtwB, w)]
    /\ UNCHANGED <<dtwA, dtwB, dtwWindow, dtwRef>>
    /\ UNCHANGED <<engineVars, rankVars, lmVars, editVars, featVars, encVars, viewVars>>

\* dtw_multivariate(B, A, window) with the window of the reference call
DtwSwapped ==
    /\ dtwRef.kind = "ref" /\ dtwCall = NoCall
    /\ dtwCall' = [kind |-> "rev", window |-> dtwWindow,
                   result |-> dtw_multivariate(dtwB, dtwA, dtwWindow)]
    /\ UNCHANGED <<dtwA, dtwB, dtwWindow, dtwRef>>
    /\ UNCHANGED <<engineVars, rankVars, lmVars, editVars, featVars, encVars, viewVars>>

NextDTW ==
    \/ DtwReference
    \/ \E w \in DtwWindows : DtwForward(w)
    \/ DtwSwapped

SpecDTW == InitDTW /\ [][NextDTW]_vars

\* C21: for non-empty paths and every window argument (negative, zero or
\* smaller than |n - m|) the result is a finite cost strictly below the
\* infinity sentinel; the effective window is max(n, m) for a negative
\* argument and max(window, |n - m|) otherwise.
C21_FiniteBelowSentinel ==
    (dtwA # << >> /\ dtwB # << >>) =>
        /\ \A w \in DtwWindows :
              EffectiveWindow(Len(dtwA), Len(dtwB), w)
                  = IF w < 0 THEN Max(Len(dtwA), Len(dtwB))
                    ELSE Max(w, Abs(Len(dtwA) - Len(dtwB)))
        /\ dtwRef.kind = "ref" => (0 <= dtwRef.result /\ dtwRef.result < INF)
        /\ dtwCall.kind \in {"fwd", "rev"} =>
              (0 <= dtwCall.result /\ dtwCall.result < INF)

\* a window argument below |n - m|, on paths of different points
C21_Witness ==
    /\ dtwRef.kind = "ref"
    /\ Len(dtwA) = MaxPathLen /\ Len(dtwB) = 1
    /\ dtwWindow = 0
    /\ dtwA[1] # dtwB[1]
    /\ 0 < dtwRef.result /\ dtwRef.result < INF

\* C6: for windows 0 <= w1 <= w2 the distance computed with w2 is not
\* greater than the distance computed with w1.
C6_WindowMonotone ==
    (dtwCall.kind = "fwd" /\ 0 <= dtwWindow /\ dtwWindow <= dtwCall.window)
        => dtwCall.result <= dtwRef.result

\* C7: dtw_multivariate(A, B, w) equals dtw_multivariate(B, A, w).
C7_Symmetric ==
    dtwCall.kind = "rev" => dtwCall.result = dtwRef.result

\* C8: the distance of a path to itself is 0 for every window.
C8_SelfDistanceZero ==
    (dtwRef.kind = "ref" /\ dtwA = dtwB) => dtwRef.result = 0

(***************************************************************************)
(* The classic recurrence on the full (n+1) x (m+1) matrix                 *)
(***************************************************************************)
\* cost[i][j] of the classic recurrence, band |i - j| <= max(w, |n - m|);
\* cells outside the band and border cells other than cost[0][0] are INF
RECURSIVE ClassicCost(_, _, _, _, _)
ClassicCost(A, B, band, i, j) ==
    IF i = 0 /\ j = 0 THEN 0
    ELSE IF i = 0 \/ j = 0 THEN INF
    ELSE IF Abs(i - j) > band THEN INF
    ELSE LET up == ClassicCost(A, B, band, i - 1, j)
             left == ClassicCost(A, B, band, i, j - 1)
             diag == ClassicCost(A, B, band, i - 1, j - 1)
             best == Min(Min(up, left), diag)
         IN IF best >= INF THEN INF ELSE Dist(A[i], B[j]) + best

ClassicDTW(A, B, w) ==
    ClassicCost(A, B, Max(w, Abs(Len(A) - Len(B))), Len(A), Len(B))

\* C20: for non-empty paths and a window w >= 0 the two rolling rows give
\* the value cost[n][m] of the full matrix of the classic recurrence.
C20_RollingRowsEqualFullMatrix ==
    (dtwRef.kind = "ref" /\ dtwA # << >> /\ dtwB # << >> /\ dtwWindow >= 0) =>
        dtwRef.result = ClassicDTW(dtwA, dtwB, dtwWindow)

C8_Witness ==
    /\ dtwRef.kind = "ref" /\ dtwRef.result = 0 /\ dtwWindow = 0
    /\ dtwA = dtwB /\ Len(dtwA) = 3
    /\ dtwA[1] # dtwA[2] /\ dtwA[2] # dtwA[3]

(***************************************************************************)
(* Specification SpecRequests: both prediction entry points of the engine  *)
(* and get_best_candidate of the ranker, with one vocabulary               *)
(***************************************************************************)
RequestAssets ==
    { [encoder |-> "ok", vocab |-> VocabFile(SomeContent), index |-> "ok",
       kenlm |-> k, lgbm |-> g] : k \in {"ok", "absent"}, g \in {"ok", "absent"} }
\* model not loaded, an empty candidate set, two scored candidates
RequestRankInputs ==
    { [threw |-> TRUE, n |-> 0, scores |-> << >>],
      [threw |-> FALSE, n |-> 0, scores |-> << >>],
      [threw |-> FALSE, n |-> 2, scores |-> <<0, 1>>] }

InitRequests ==
    /\ InitEngine
    /\ IdleDTW /\ IdleLM /\ IdleEdit /\ IdleFeat /\ IdleEnc /\ IdleView
    /\ rankInput \in RequestRankInputs
    /\ sortTie = [i \in 1..MaxRanked |-> i]
    /\ rankFirst = NoCall
    /\ rankSecond = NoCall
    /\ rankBest = NoCall

GetBestCandidate ==
    /\ rankBest = NoCall
    /\ rankBest' = [kind |-> "best", ret |-> get_best_candidate(rankInput, sortTie)]
    /\ UNCHANGED <<rankInput, sortTie, rankFirst, rankSecond>>
    /\ UNCHANGED <<engineVars, dtwVars, lmVars, editVars, featVars, encVars, viewVars>>

NextRequests ==
    \/ \E a \in RequestAssets : Initialize(a)
    \/ \E p \in SwipePaths, run \in {"ok", "error"}, h \in HitSets, g \in GbmRuns :
              PredictFromSwipe(p, run, h, g)
    \/ \E p \in SwipePaths, run \in {"ok", "error"}, h \in HitSets, g \in GbmRuns :
              PredictTopKFromSwipe(p, run, h, g)
    \/ GetBestCandidate
    \/ ReturnToCaller

SpecRequests == InitRequests /\ [][NextRequests]_vars

\* no returned cluster gives a word: the search result is empty, or each of
\* its clusters is missing from the vocabulary or has an empty word list
NoWordFound ==
    /\ Ranked
    /\ \A c \in DOMAIN req.candidates :
          ~VocabHas(m_vocab, c) \/ m_vocab.map[c] = << >>

\* C15: a request whose search result gives no word returns the empty
\* result and no exception: the empty string from PredictFromSwipe, the
\* empty list from PredictTopKFromSwipe; get_best_candidate on an empty
\* candidate set returns the empty string.
C15_EmptyCandidateSet ==
    /\ NoWordFound =>
          /\ req.outcome = "returned"
          /\ req.result = EmptyString
          /\ req.results = << >>
    /\ (rankBest # NoCall /\ rankInput.n = 0) =>
          rankBest.ret = [threw |-> FALSE, word |-> EmptyString]

C15_Witness ==
    /\ NoWordFound
    /\ req.api = "PredictTopKFromSwipe"
    /\ DOMAIN req.candidates # {}
    /\ req.results = << >>
    /\ rankBest # NoCall /\ rankInput.n = 0 /\ rankInput.threw

\* C16: a request with an empty path returns the empty result without
\* encoding, searching or ranking, and EncodeSwipe gives the empty vector
\* for an empty path, for which SearchVocabulary searches nothing.
C16_EmptyPathRejected ==
    /\ (req.kind = "predict" /\ req.path = << >>) =>
          /\ req.stage \in {"not initialized", "empty path"}
          /\ req.embedding = "none"
          /\ req.candidates = << >>
          /\ req.rank = NoRank
          /\ req.outcome = "returned"
          /\ req.result = EmptyString
    /\ \A run \in {"ok", "error"} :
          /\ EncodeSwipe(<< >>, run) = "empty"
          /\ \A h \in HitSets :
                SearchVocabulary(EncodeSwipe(<< >>, run), h) = << >>

C16_Witness ==
    /\ req.kind = "predict" /\ req.path = << >>
    /\ req.stage = "empty path"
    /\ m_initialized /\ m_swipeEncoder /\ m_faissIndex

(***************************************************************************)
(* float arithmetic of the feature builder: IEEE-754 binary32, round to    *)
(* nearest even.  A finite value is [s, m, e] = s * m * 2^e with           *)
(* 2^23 <= m < 2^24, zero is m = 0.  Values stay far from the subnormal    *)
(* and overflow ranges; NaN and infinities are outside the model.          *)
(***************************************************************************)
FloatBits == 24
F32Zero == [s |-> 1, m |-> 0, e |-> 0]
\* what a division by zero leaves: not a finite value
F32NotFinite == [s |-> 1, m |-> 0, e |-> 1]

\* number of binary digits of m > 0
BitLen(m) == CHOOSE k \in 1..31 : 2^(k - 1) <= m /\ (k = 31 \/ m < 2^k)

\* the binary32 nearest to s * (m + f) * 2^e, where 0 <= f < 1 and f > 0 iff
\* sticky; ties go to the even mantissa.  m has at least FloatBits + 1
\* digits when sticky holds.
F32Round(s, m, e, sticky) ==
    IF m = 0 THEN F32Zero
    ELSE LET n == BitLen(m)
         IN IF n <= FloatBits
            THEN [s |-> s, m |-> m * 2^(FloatBits - n), e |-> e - (FloatBits - n)]
            ELSE LET d == n - FloatBits
                     q == m \div 2^d
                     r == m % 2^d
                     half == 2^(d - 1)
                     up == r > half \/ (r = half /\ (sticky \/ q % 2 = 1))
                     q1 == IF up THEN q + 1 ELSE q
                 IN IF q1 = 2^FloatBits
                    THEN [s |-> s, m |-> 2^(FloatBits - 1), e |-> e + d + 1]
                    ELSE [s |-> s, m |-> q1, e |-> e + d]

\* (float)n for an int n
F32FromInt(n) == F32Round(IF n < 0 THEN 0 - 1 ELSE 1, Abs(n), 0, FALSE)

F32Neg(a) == IF a.m = 0 THEN a ELSE [a EXCEPT !.s = 0 - a.s]

\* a < b
F32Less(a, b) ==
    LET mag(x, y) == x.e < y.e \/ (x.e = y.e /\ x.m < y.m)   \* |x| < |y|, both non-zero
    IN IF a.m = 0 THEN b.m # 0 /\ b.s = 1
       ELSE IF b.m = 0 THEN a.s = 0 - 1
       ELSE IF a.s # b.s THEN a.s = 0 - 1
       ELSE IF a.s = 1 THEN mag(a, b) ELSE mag(b, a)

\* a + b: the operand of smaller exponent is aligned under three extra low
\* digits of the other, the digits shifted out are kept as a sticky digit
F32Add(a, b) ==
    IF a.m = 0 THEN b
    ELSE IF b.m = 0 THEN a
    ELSE LET hi == IF a.e >= b.e THEN a ELSE b
             lo == IF a.e >= b.e THEN b ELSE a
             d == hi.e - lo.e
         IN IF d > FloatBits + 2 THEN hi
            ELSE LET H == hi.m * 8
                     L == IF d <= 3 THEN lo.m * 2^(3 - d) ELSE lo.m \div 2^(d - 3)
                     sticky == d > 3 /\ lo.m % 2^(d - 3) # 0
                 IN IF hi.s = lo.s THEN F32Round(hi.s, H + L, hi.e - 3, sticky)
                    ELSE IF H = L THEN F32Zero
                    ELSE IF H > L
                         THEN F32Round(hi.s, IF sticky THEN H - L - 1 ELSE H - L,
                                       hi.e - 3, sticky)
                         ELSE F32Round(lo.s, L - H, hi.e - 3, FALSE)

F32Sub(a, b) == F32Add(a, F32Neg(b))

\* a * b: the 48-digit product of the mantissas from 12-digit halves
F32Mul(a, b) ==
    IF a.m = 0 \/ b.m = 0 THEN F32Zero
    ELSE LET a1 == a.m \div 4096   a0 == a.m % 4096
             b1 == b.m \div 4096   b0 == b.m % 4096
             mid == a1 * b0 + a0 * b1
             low == a0 * b0 + (mid % 4096) * 4096
             lo24 == low % 2^24
             high == a1 * b1 + mid \div 4096 + low \div 2^24
         IN F32Round(a.s * b.s, high * 4 + lo24 \div 2^22, a.e + b.e + 22,
                     lo24 % 2^22 # 0)

\* the quotient digits of n / d below the integer part, one per step
RECURSIVE DivDigits(_, _, _, _)
DivDigits(q, r, d, steps) ==
    IF steps = 0 THEN [q |-> q, r |-> r]
    ELSE IF 2 * r >= d THEN DivDigits(2 * q + 1, 2 * r - d, d, steps - 1)
         ELSE DivDigits(2 * q, 2 * r, d, steps - 1)

\* a / b
F32Div(a, b) ==
    IF b.m = 0 THEN F32NotFinite
    ELSE IF a.m = 0 THEN F32Zero
    ELSE LET qr == DivDigits(a.m \div b.m, a.m % b.m, b.m, FloatBits + 2)
         IN F32Round(a.s * b.s, qr.q, a.e - b.e - (FloatBits + 2), qr.r # 0)

\* digit-by-digit square root: the digit pairs of m from the top, then
\* `zeros` pairs of zero digits below them
RECURSIVE SqrtDigits(_, _, _, _, _)
SqrtDigits(root, rem, m, pairs, zeros) ==
    IF pairs = 0 /\ zeros = 0 THEN [root |-> root, rem |-> rem]
    ELSE LET pair == IF pairs > 0 THEN (m \div 4^(pairs - 1)) % 4 ELSE 0
             r4 == 4 * rem + pair
             t == 4 * root + 1
             p1 == IF pairs > 0 THEN pairs - 1 ELSE 0
             z1 == IF pairs > 0 THEN zeros ELSE zeros - 1
         IN IF r4 >= t THEN SqrtDigits(2 * root + 1, r4 - t, m, p1, z1)
            ELSE SqrtDigits(2 * root, r4, m, p1, z1)

\* std::sqrt(a) for a >= 0
F32Sqrt(a) ==
    IF a.m = 0 THEN F32Zero
    ELSE LET odd == a.e % 2 # 0
             m2 == IF odd THEN 2 * a.m ELSE a.m
             e2 == IF odd THEN a.e - 1 ELSE a.e
             rs == SqrtDigits(0, 0, m2, 13, 14)
         IN F32Round(1, rs.root, e2 \div 2 - 14, rs.rem # 0)

(***************************************************************************)
(* Feature builder: lightgbm_ranker.cpp compute_enhanced_features and      *)
(* features_to_array, ranking_features.cpp second pass                     *)
(***************************************************************************)
\* const float epsilon = 1e-6f, the binary32 nearest to 10^-6
epsilon == [s |-> 1, m |-> 8796093, e |-> 0 - 43]
F32One == F32FromInt(1)

\* std::log is not computed: its result is named by its argument
F32Log(x) == [fn |-> "log", arg |-> x]

\* (float)n for the size of a column or a count
SizeToFloat(n) == F32FromInt(n)

RECURSIVE MinFrom(_, _, _)
MinFrom(col, i, smallest) ==
    IF i > Len(col) THEN smallest
    ELSE MinFrom(col, i + 1, IF F32Less(col[i], smallest) THEN col[i] ELSE smallest)
min_element(col) == MinFrom(col, 2, col[1])

RECURSIVE MaxFrom(_, _, _)
MaxFrom(col, i, largest) ==
    IF i > Len(col) THEN largest
    ELSE MaxFrom(col, i + 1, IF F32Less(largest, col[i]) THEN col[i] ELSE largest)
max_element(col) == MaxFrom(col, 2, col[1])

\* features.x_normalized = (x - min) / (max - min + epsilon)
MinMaxNormalized(x, col) ==
    F32Div(F32Sub(x, min_element(col)),
           F32Add(F32Sub(max_element(col), min_element(col)), epsilon))

\* for (float v : col) sum += v, from 0.0f
RECURSIVE SumFrom(_, _, _)
SumFrom(col, i, sum) ==
    IF i > Len(col) THEN sum ELSE SumFrom(col, i + 1, F32Add(sum, col[i]))

ColumnMean(col) == F32Div(SumFrom(col, 1, F32Zero), SizeToFloat(Len(col)))

\* for (float v : col) var += (v - mean) * (v - mean), from 0.0f
RECURSIVE VarFrom(_, _, _, _)
VarFrom(col, mean, i, var) ==
    IF i > Len(col) THEN var
    ELSE LET dev == F32Sub(col[i], mean)
         IN VarFrom(col, mean, i + 1, F32Add(var, F32Mul(dev, dev)))

ColumnStd(col) ==
    F32Sqrt(F32Div(VarFrom(col, ColumnMean(col), 1, F32Zero), SizeToFloat(Len(col))))

\* features.x_zscore = (x - mean) / (std + epsilon)
ZScore(x, col) ==
    F32Div(F32Sub(x, ColumnMean(col)), F32Add(ColumnStd(col), epsilon))

\* for (float v : col) if (v < x) count++
CountLess(col, x) == Cardinality({ i \in 1..Len(col) : F32Less(col[i], x) })
CountGreaterOrEqual(col, x) == Cardinality({ i \in 1..Len(col) : ~F32Less(col[i], x) })
\* for (float v : col) if (v > x) count++
CountGreater(col, x) == Cardinality({ i \in 1..Len(col) : F32Less(x, col[i]) })

\* features.x_percentile = (float)count / col.size()
Percentile(count, col) == F32Div(SizeToFloat(count), SizeToFloat(Len(col)))

compute_enhanced_features(word, lm_score, faiss_distance, faiss_rank, dtw_distance, dtw_rank, lm_scores_all, faiss_distances_all, dtw_distances_all, dtw_raw, dtw_normalized_by_max, dtw_normalized_by_min, dtw_normalized_by_sum, len_swipe, len_word, path_length_ratio, word_length) ==
    [word |-> word,
     lm_score |-> lm_score,
     faiss_distance |-> faiss_distance,
     faiss_rank |-> faiss_rank,
     dtw_distance |-> dtw_distance,
     dtw_rank |-> dtw_rank,
     lm_normalized |-> MinMaxNormalized(lm_score, lm_scores_all),
     faiss_normalized |-> MinMaxNormalized(faiss_distance, faiss_distances_all),
     dtw_normalized |-> MinMaxNormalized(dtw_distance, dtw_distances_all),
     lm_zscore |-> ZScore(lm_score, lm_scores_all),
     faiss_zscore |-> ZScore(faiss_distance, faiss_distances_all),
     dtw_zscore |-> ZScore(dtw_distance, dtw_distances_all),
     lm_gap_to_best |-> F32Sub(max_element(lm_scores_all), lm_score),
     faiss_gap_to_best |-> F32Sub(faiss_distance, min_element(faiss_distances_all)),
     dtw_gap_to_best |-> F32Sub(dtw_distance, min_element(dtw_distances_all)),
     lm_percentile |-> Percentile(CountLess(lm_scores_all, lm_score), lm_scores_all),
     faiss_percentile |-> Percentile(CountGreater(faiss_distances_all, faiss_distance),
                                     faiss_distances_all),
     dtw_percentile |-> Percentile(CountGreater(dtw_distances_all, dtw_distance),
                                   dtw_distances_all),
     rank_agreement |-> Abs(faiss_rank - dtw_rank),
     min_rank |-> Min(faiss_rank, dtw_rank),
     is_top_faiss |-> IF faiss_rank = 1 THEN F32One ELSE F32Zero,
     is_top_dtw |-> IF dtw_rank = 1 THEN F32One ELSE F32Zero,
     is_top_in_both |-> IF faiss_rank = 1 /\ dtw_rank = 1 THEN F32One ELSE F32Zero,
     log_faiss_distance |-> F32Log(F32Add(faiss_distance, epsilon)),
     log_dtw_distance |-> F32Log(F32Add(dtw_distance, epsilon)),
     inv_faiss_distance |-> F32Div(F32One, F32Add(faiss_distance, epsilon)),
     inv_dtw_distance |-> F32Div(F32One, F32Add(dtw_distance, epsilon)),
     faiss_rank_reciprocal |-> F32Div(F32One, F32FromInt(faiss_rank)),
     dtw_rank_reciprocal |-> F32Div(F32One, F32FromInt(dtw_rank)),
     lm_faiss_interaction |-> F32Mul(lm_score, faiss_distance),
     lm_dtw_interaction |-> F32Mul(lm_score, dtw_distance),
     faiss_dtw_interaction |-> F32Mul(faiss_distance, dtw_distance),
     dtw_raw |-> dtw_raw,
     dtw_normalized_by_max |-> dtw_normalized_by_max,
     dtw_normalized_by_min |-> dtw_normalized_by_min,
     dtw_normalized_by_sum |-> dtw_normalized_by_sum,
     len_swipe |-> len_swipe,
     len_word |-> len_word,
     path_length_ratio |-> path_length_ratio,
     word_length |-> word_length]

\* the first pass's arithmetic for one candidate: TempCandidateData
TempCandidate(word, lm_score, faiss_distance, faiss_rank, dtw_raw, len_swipe, len_word) ==
    LET max_len == Max(len_swipe, len_word)
        min_len == Min(len_swipe, len_word)
        sum_len == len_swipe + len_word
    IN [word |-> word,
        lm_score |-> lm_score,
        faiss_distance |-> faiss_distance,
        faiss_rank |-> faiss_rank,
        dtw_raw |-> dtw_raw,
        dtw_normalized_by_max |-> IF max_len > 0 THEN F32Div(dtw_raw, F32FromInt(max_len))
                                  ELSE F32Zero,
        dtw_normalized_by_min |-> IF min_len > 0 THEN F32Div(dtw_raw, F32FromInt(min_len))
                                  ELSE F32Zero,
        dtw_normalized_by_sum |-> IF sum_len > 0 THEN F32Div(dtw_raw, F32FromInt(sum_len))
                                  ELSE F32Zero,
        len_swipe |-> len_swipe,
        len_word |-> len_word,
        path_length_ratio |-> IF len_word > 0
                              THEN F32Div(F32FromInt(len_swipe), F32FromInt(len_word))
                              ELSE F32Zero,
        word_length |-> Len(word)]

\* std::sort of the indices by ascending dtw_normalized_by_max, then
\* dtw_ranks[dtw_indices[i]] = i + 1; candidates of equal distance come out
\* in the order the build's sort leaves them (tie)
DtwRanks(temp_candidates, tie) ==
    [i \in 1..Len(temp_candidates) |->
        LET key(k) == temp_candidates[k].dtw_normalized_by_max
        IN 1 + Cardinality({ j \in 1..Len(temp_candidates) :
                               \/ F32Less(key(j), key(i))
                               \/ /\ ~F32Less(key(i), key(j))
                                  /\ tie[j] < tie[i] })]

\* the second pass of compute_all_features
SecondPass(temp_candidates, tie) ==
    LET dtw_ranks == DtwRanks(temp_candidates, tie)
        lm_scores_all == [i \in 1..Len(temp_candidates) |-> temp_candidates[i].lm_score]
        faiss_distances_all ==
            [i \in 1..Len(temp_candidates) |-> temp_candidates[i].faiss_distance]
        dtw_distances_all ==
            [i \in 1..Len(temp_candidates) |-> temp_candidates[i].dtw_normalized_by_max]
    IN [i \in 1..Len(temp_candidates) |->
          LET temp == temp_candidates[i]
          IN compute_enhanced_features(temp.word, temp.lm_score, temp.faiss_distance,
                 temp.faiss_rank, temp.dtw_normalized_by_max, dtw_ranks[i],
                 lm_scores_all, faiss_distances_all, dtw_distances_all,
                 temp.dtw_raw, temp.dtw_normalized_by_max, temp.dtw_normalized_by_min,
                 temp.dtw_normalized_by_sum, temp.len_swipe, temp.len_word,
                 temp.path_length_ratio, temp.word_length)]

\* get_num_features()
NumFeatures == 39

\* a float or an int pushed into the vector<double>: the value is kept
DoubleOfFloat(x) == x
DoubleOfInt(n) == F32FromInt(n)

features_to_arrayWithoutLast(features) ==
    <<DoubleOfFloat(features.dtw_raw),
      DoubleOfFloat(features.dtw_normalized_by_max),
      DoubleOfFloat(features.dtw_normalized_by_min),
      DoubleOfFloat(features.dtw_normalized_by_sum),
      DoubleOfInt(features.len_swipe),
      DoubleOfInt(features.len_word),
      DoubleOfFloat(features.path_length_ratio),
      DoubleOfInt(features.word_length),
      DoubleOfFloat(features.lm_score),
      DoubleOfFloat(features.faiss_distance),
      DoubleOfInt(features.faiss_rank),
      DoubleOfFloat(features.dtw_distance),
      DoubleOfInt(features.dtw_rank),
      DoubleOfFloat(features.lm_normalized),
      DoubleOfFloat(features.faiss_normalized),
      DoubleOfFloat(features.dtw_normalized),
      DoubleOfFloat(features.lm_zscore),
      DoubleOfFloat(features.faiss_zscore),
      DoubleOfFloat(features.dtw_zscore),
      DoubleOfFloat(features.lm_gap_to_best),
      DoubleOfFloat(features.faiss_gap_to_best),
      DoubleOfFloat(features.dtw_gap_to_best),
      DoubleOfFloat(features.lm_percentile),
      DoubleOfFloat(features.faiss_percentile),
      DoubleOfFloat(features.dtw_percentile),
      DoubleOfInt(features.rank_agreement),
      DoubleOfInt(features.min_rank),
      DoubleOfFloat(features.is_top_faiss),
      DoubleOfFloat(features.is_top_dtw),
      DoubleOfFloat(features.is_top_in_both),
      DoubleOfFloat(features.log_faiss_distance),
      DoubleOfFloat(features.log_dtw_distance),
      DoubleOfFloat(features.inv_faiss_distance),
      DoubleOfFloat(features.inv_dtw_distance),
      DoubleOfFloat(features.faiss_rank_reciprocal),
      DoubleOfFloat(features.dtw_rank_reciprocal),
      DoubleOfFloat(features.lm_faiss_interaction),
      DoubleOfFloat(features.lm_dtw_interaction)>>
features_to_array(features) ==
    <<DoubleOfFloat(features.dtw_raw),                  \* 0
      DoubleOfFloat(features.dtw_normalized_by_max),    \* 1
      DoubleOfFloat(features.dtw_normalized_by_min),    \* 2
      DoubleOfFloat(features.dtw_normalized_by_sum),    \* 3
      DoubleOfInt(features.len_swipe),                  \* 4
      DoubleOfInt(features.len_word),                   \* 5
      DoubleOfFloat(features.path_length_ratio),        \* 6
      DoubleOfInt(features.word_length),                \* 7
      DoubleOfFloat(features.lm_score),                 \* 8
      DoubleOfFloat(features.faiss_distance),           \* 9
      DoubleOfInt(features.faiss_rank),                 \* 10
      DoubleOfFloat(features.dtw_distance),             \* 11
      DoubleOfInt(features.dtw_rank),                   \* 12
      DoubleOfFloat(features.lm_normalized),            \* 13
      DoubleOfFloat(features.faiss_normalized),         \* 14
      DoubleOfFloat(features.dtw_normalized),           \* 15
      DoubleOfFloat(features.lm_zscore),                \* 16
      DoubleOfFloat(features.faiss_zscore),             \* 17
      DoubleOfFloat(features.dtw_zscore),               \* 18
      DoubleOfFloat(features.lm_gap_to_best),           \* 19
      DoubleOfFloat(features.faiss_gap_to_best),        \* 20
      DoubleOfFloat(features.dtw_gap_to_best),          \* 21
      DoubleOfFloat(features.lm_percentile),            \* 22
      DoubleOfFloat(features.faiss_percentile),         \* 23
      DoubleOfFloat(features.dtw_percentile),           \* 24
      DoubleOfInt(features.rank_agreement),             \* 25
      DoubleOfInt(features.min_rank),                   \* 26
      DoubleOfFloat(features.is_top_faiss),             \* 27
      DoubleOfFloat(features.is_top_dtw),               \* 28
      DoubleOfFloat(features.is_top_in_both),           \* 29
      DoubleOfFloat(features.log_faiss_distance),       \* 30
      DoubleOfFloat(features.log_dtw_distance),         \* 31
      DoubleOfFloat(features.inv_faiss_distance),       \* 32
      DoubleOfFloat(features.inv_dtw_distance),         \* 33
      DoubleOfFloat(features.faiss_rank_reciprocal),    \* 34
      DoubleOfFloat(features.dtw_rank_reciprocal),      \* 35
      DoubleOfFloat(features.lm_faiss_interaction),     \* 36
      DoubleOfFloat(features.lm_dtw_interaction),       \* 37
      DoubleOfFloat(features.faiss_dtw_interaction)>>   \* 38

(***************************************************************************)
(* Specification SpecFeat: the second pass of compute_all_features and     *)
(* features_to_array on bounded candidate sets                             *)
(***************************************************************************)
\* the signals of one candidate: lm_score -1.7f or -5.3f, faiss_distance
\* 0.9f or 1.3f (the words of one cluster share it), dtw_raw 5, 4 or 0 and
\* the length of the ideal path
FeatSignals ==
    { [lm_score |-> [s |-> 0 - 1, m |-> 14260634, e |-> 0 - 23],
       faiss_distance |-> [s |-> 1, m |-> 15099494, e |-> 0 - 24],
       dtw_raw |-> F32FromInt(5), len_word |-> 3],
      [lm_score |-> [s |-> 0 - 1, m |-> 14260634, e |-> 0 - 23],
       faiss_distance |-> [s |-> 1, m |-> 15099494, e |-> 0 - 24],
       dtw_raw |-> F32FromInt(4), len_word |-> 2],
      [lm_score |-> [s |-> 0 - 1, m |-> 11114906, e |-> 0 - 21],
       faiss_distance |-> [s |-> 1, m |-> 10905190, e |-> 0 - 23],
       dtw_raw |-> F32Zero, len_word |-> 1] }

\* faiss_rank of candidate i: it grows by one at each change of cluster
FaissRankAt(signals, i) ==
    1 + Cardinality({ j \in 2..i :
                        signals[j].faiss_distance # signals[j - 1].faiss_distance })

\* temp_candidates after the first pass, for a swipe of MaxPathLen points
FirstPass(signals) ==
    [i \in 1..Len(signals) |->
        TempCandidate(RankWord(i), signals[i].lm_score, signals[i].faiss_distance,
                      FaissRankAt(signals, i), signals[i].dtw_raw, MaxPathLen,
                      signals[i].len_word)]

FeatInputs == { FirstPass(sig) : sig \in SeqsUpTo(FeatSignals, MaxRanked) \ {<< >>} }

InitFeat ==
    /\ InitEngine
    /\ IdleDTW /\ IdleRank /\ IdleLM /\ IdleEdit /\ IdleEnc /\ IdleView
    /\ featIn \in FeatInputs
    /\ featOut = NoCall

\* the second pass, then predict()'s loop of features_to_array
ComputeFeatures(tie) ==
    /\ featOut = NoCall
    /\ LET features == SecondPass(featIn, tie)
       IN featOut' = [kind |-> "features",
                      ncol |-> NumFeatures,
                      features |-> features,
                      arrays |-> [i \in 1..Len(features) |->
                                     features_to_array(features[i])]]
    /\ UNCHANGED featIn
    /\ UNCHANGED <<engineVars, dtwVars, rankVars, lmVars, editVars, encVars, viewVars>>

NextFeat == \E tie \in Permutations1(Len(featIn)) : ComputeFeatures(tie)

SpecFeat == InitFeat /\ [][NextFeat]_vars

\* the 39 features of the documented feature set
DocumentedFeatures ==
    { "lm_score", "faiss_distance", "faiss_rank", "dtw_distance", "dtw_rank",
      "lm_normalized", "faiss_normalized", "dtw_normalized",
      "lm_zscore", "faiss_zscore", "dtw_zscore",
      "lm_gap_to_best", "faiss_gap_to_best", "dtw_gap_to_best",
      "lm_percentile", "faiss_percentile", "dtw_percentile",
      "rank_agreement", "min_rank", "is_top_faiss", "is_top_dtw", "is_top_in_both",
      "log_faiss_distance", "log_dtw_distance", "inv_faiss_distance", "inv_dtw_distance",
      "faiss_rank_reciprocal", "dtw_rank_reciprocal",
      "lm_faiss_interaction", "lm_dtw_interaction", "faiss_dtw_interaction",
      "dtw_raw", "dtw_normalized_by_max", "dtw_normalized_by_min", "dtw_normalized_by_sum",
      "len_swipe", "len_word", "path_length_ratio", "word_length" }
\* the members of CandidateFeatures declared int
IntFeatures ==
    { "faiss_rank", "dtw_rank", "rank_agreement", "min_rank",
      "len_swipe", "len_word", "word_length" }

\* a CandidateFeatures whose only non-zero member is d
OnlyFeature(d) ==
    [n \in DocumentedFeatures |->
        IF n \in IntFeatures THEN (IF n = d THEN 1 ELSE 0)
        ELSE (IF n = d THEN F32One ELSE F32Zero)]
\* the places of the array that take the value of member d
PlacesOf(d) ==
    LET arr == features_to_array(OnlyFeature(d))
    IN { k \in 1..Len(arr) : arr[k] = F32One }
FeaturePlaces == [d \in DocumentedFeatures |-> PlacesOf(d)]
\* member d of a CandidateFeatures as a double
AsDouble(features, d) ==
    IF d \in IntFeatures THEN F32FromInt(features[d]) ELSE features[d]

IsQuotient(p, k, n) ==
    IF k = 0 THEN p = F32Zero
    ELSE /\ p.s = 1 /\ p.m # 0 /\ p.e < 0
         /\ 2 * Abs(p.m * n - k * 2^(0 - p.e)) <= n
InUnitInterval(p) == ~F32Less(p, F32Zero) /\ ~F32Less(F32One, p)

\* C13: each percentile of a candidate is (number of candidates strictly
\* worse on the signal) / N as a float: worse is a lower LM score, a greater
\* embedding distance, a greater DTW distance; it lies in [0, 1].
C13_PercentileIsFractionWorse ==
    featOut.kind = "features" =>
        LET f == featOut.features
            N == Len(f)
        IN \A c \in 1..N :
              LET lm_worse == { j \in 1..N : F32Less(f[j].lm_score, f[c].lm_score) }
                  faiss_worse ==
                      { j \in 1..N : F32Less(f[c].faiss_distance, f[j].faiss_distance) }
                  dtw_worse ==
                      { j \in 1..N : F32Less(f[c].dtw_distance, f[j].dtw_distance) }
              IN /\ IsQuotient(f[c].lm_percentile, Cardinality(lm_worse), N)
                 /\ IsQuotient(f[c].faiss_percentile, Cardinality(faiss_worse), N)
                 /\ IsQuotient(f[c].dtw_percentile, Cardinality(dtw_worse), N)
                 /\ InUnitInterval(f[c].lm_percentile)
                 /\ InUnitInterval(f[c].faiss_percentile)
                 /\ InUnitInterval(f[c].dtw_percentile)

\* three candidates, two of them with an equal DTW distance, and a
\* candidate with one and a candidate with two strictly worse on LM score
C13_Witness ==
    /\ featOut.kind = "features"
    /\ Len(featOut.features) = 3
    /\ \E c, d \in 1..3 :
          /\ c # d
          /\ featOut.features[c].dtw_distance = featOut.features[d].dtw_distance
          /\ featOut.features[c].dtw_percentile = F32Div(F32One, F32FromInt(3))
    /\ \E c \in 1..3 :
          featOut.features[c].lm_percentile = F32Div(F32FromInt(2), F32FromInt(3))

\* x * 2^20 cut to an integer, for |x| < 2^10
Fixed20(x) ==
    IF x.m = 0 \/ x.e + 20 < 0 - 30 THEN 0
    ELSE IF x.e + 20 >= 0 THEN x.s * x.m * 2^(x.e + 20)
    ELSE x.s * (x.m \div 2^(0 - (x.e + 20)))
RECURSIVE SumFixed20(_, _, _)
SumFixed20(f, member, i) ==
    IF i > Len(f) THEN 0 ELSE Fixed20(f[i][member]) + SumFixed20(f, member, i + 1)
\* the mean of a z-score member over the set is 0 within 2^-10
ZeroMean(f, member) == Abs(SumFixed20(f, member, 1)) <= Len(f) * 2^10 + Len(f)

\* C14: for each signal the z-scores of a non-empty candidate set have
\* mean 0 (they sum to 0), within a floating tolerance.
C14_ZScoresHaveMeanZero ==
    featOut.kind = "features" =>
        /\ ZeroMean(featOut.features, "lm_zscore")
        /\ ZeroMean(featOut.features, "faiss_zscore")
        /\ ZeroMean(featOut.features, "dtw_zscore")

(***************************************************************************)
(* TextInputEngine::EncodeSwipe: the tensors handed to the swipe encoder   *)
(***************************************************************************)
MAX_LENGTH_SWIPE == 520
\* the value short paths are padded with, -200.0f
PadValue == -200

\* all_points: the path as a flat vector x1, y1, x2, y2, ...
Flatten(swipePath) ==
    [k \in 1..(2 * Len(swipePath)) |->
        IF k % 2 = 1 THEN swipePath[(k + 1) \div 2][1] ELSE swipePath[k \div 2][2]]

\* all_points.erase(begin, end - keep_last)
CropKeepsFirst(all_points, keep_last) ==
    SubSeq(all_points, 1, keep_last)
CropToLast(all_points, keep_last) ==
    SubSeq(all_points, Len(all_points) - keep_last + 1, Len(all_points))

\* v.resize(size, value) of a vector no longer than size
Resize(v, size, value) ==
    v \o [k \in 1..(size - Len(v)) |-> value]

\* the input, positions and mask tensors EncodeSwipe builds for a path
EncoderInput(swipePath) ==
    LET flat == Flatten(swipePath)
        positions == [k \in 1..MAX_LENGTH_SWIPE |-> k - 1]
        keep_last == 2 * MAX_LENGTH_SWIPE
    IN IF Len(flat) > keep_last
       THEN LET all_points == CropToLast(flat, keep_last)
            IN [all_points |-> all_points, positions |-> positions,
                mask |-> Resize(<< >>, Len(all_points) \div 2, 0)]
       ELSE IF Len(flat) < keep_last
       THEN LET mask == Resize(<< >>, Len(flat) \div 2, 0)
                all_points == Resize(flat, keep_last, PadValue)
            IN [all_points |-> all_points, positions |-> positions,
                mask |-> Resize(mask, Len(all_points) \div 2, 1)]
       ELSE [all_points |-> flat, positions |-> positions,
             mask |-> Resize(<< >>, Len(flat) \div 2, 0)]

\* a call of EncodeSwipe: the tensors are built when there is a session and
\* the path is not empty, whatever the inference then does
EncodeSwipeCall(swipePath, run) ==
    /\ initCall.kind = "none" /\ req.kind = "none"
    /\ encInput = NoCall
    /\ encPath' = swipePath
    /\ encInput' = [kind |-> "encode", run |-> run,
                    built |-> m_swipeEncoder /\ swipePath # << >>,
                    tensors |-> IF m_swipeEncoder /\ swipePath # << >>
                                THEN EncoderInput(swipePath)
                                ELSE [all_points |-> << >>, positions |-> << >>,
                                      mask |-> << >>],
                    ret |-> EncodeSwipe(swipePath, run)]
    /\ UNCHANGED <<engineVars, dtwVars, rankVars, lmVars, editVars, featVars,
                   viewVars>>

EncodeSwipeReturns ==
    /\ encInput # NoCall
    /\ encPath' = << >>
    /\ encInput' = NoCall
    /\ UNCHANGED <<engineVars, dtwVars, rankVars, lmVars, editVars, featVars,
                   viewVars>>

(***************************************************************************)
(* Specification SpecEncode: EncodeSwipe on short, full and long paths     *)
(***************************************************************************)
\* a path of n gaze points; the points differ along the path
GazePath(n, a, b) == [k \in 1..n |-> <<(a * k) % 7, (b * k + 1) % 5>>]
EncodePaths ==
    { << >> } \cup
    { GazePath(n, a, b) :
        n \in {1, 2, MAX_LENGTH_SWIPE - 1, MAX_LENGTH_SWIPE,
               MAX_LENGTH_SWIPE + 1, MAX_LENGTH_SWIPE + 2},
        a \in {1, 2, 3}, b \in {1, 3} }
EncodeAssets ==
    { [encoder |-> e, vocab |-> VocabFile(SomeContent), index |-> "ok",
       kenlm |-> "absent", lgbm |-> "absent"] : e \in {"ok", "bad"} }

NextEncode ==
    \/ encInput = NoCall /\ \E a \in EncodeAssets : Initialize(a)
    \/ encInput = NoCall /\ ReturnToCaller
    \/ \E p \in EncodePaths, run \in {"ok", "error"} : EncodeSwipeCall(p, run)
    \/ EncodeSwipeReturns

SpecEncode == Init /\ [][NextEncode]_vars

\* point i (from 1) of the input tensor
InputPoint(i) ==
    <<encInput.tensors.all_points[2 * i - 1], encInput.tensors.all_points[2 * i]>>

\* C24: for a non-empty path of n points the encoder input has
\* MAX_LENGTH_SWIPE points, the positions 0..MAX_LENGTH_SWIPE-1 and
\* MAX_LENGTH_SWIPE mask entries; a longer path gives its last
\* MAX_LENGTH_SWIPE points in order with no entry marked as padding, a shorter
\* one its n points followed by sentinel points with exactly the entries from
\* n on marked, a path of exactly that length itself with no entry marked.
C24_EncoderInputPadsOrCrops ==
    (encInput.kind = "encode" /\ encInput.built) =>
        LET n == Len(encPath)
            L == MAX_LENGTH_SWIPE
            t == encInput.tensors
        IN /\ Len(t.all_points) = 2 * L
           /\ Len(t.positions) = L
           /\ \A i \in 1..L : t.positions[i] = i - 1
           /\ Len(t.mask) = L
           /\ n > L => \A i \in 1..L :
                          InputPoint(i) = encPath[n - L + i] /\ t.mask[i] = 0
           /\ n < L => \A i \in 1..L :
                          /\ i <= n => InputPoint(i) = encPath[i]
                          /\ i > n => InputPoint(i) = <<PadValue, PadValue>>
                          /\ t.mask[i] = 1 <=> i > n
                          /\ t.mask[i] \in {0, 1}
           /\ n = L => \A i \in 1..L :
                          InputPoint(i) = encPath[i] /\ t.mask[i] = 0

\* a path two points longer than the encoder takes, whose first point differs
\* from the first point kept
C24_Witness ==
    /\ encInput.kind = "encode" /\ encInput.built
    /\ Len(encPath) = MAX_LENGTH_SWIPE + 2
    /\ encPath[1] # encPath[3]
    /\ InputPoint(1) = encPath[3]

(***************************************************************************)
(* compute_all_features: both passes on vocabularies and search results    *)
(***************************************************************************)
\* spellings with a character the keyboard table lacks, and a two-letter word
wq == <<"?">>
waq == <<"a", "?">>
wax == <<"a", "x">>

\* both passes of compute_all_features.  The inputs are integer-valued, so
\* the floats of the first pass are the floats of its integers.
AllFeatures(swipe_path, faiss_results, vocab, keys, lm_scores, candidate_words, tie) ==
    LET first == compute_all_features(swipe_path, faiss_results, vocab, keys,
                                      lm_scores, candidate_words)
    IN IF first.threw THEN [threw |-> TRUE, features |-> << >>]
       ELSE LET temp_candidates ==
                    [i \in 1..Len(first.temp) |->
                        LET t == first.temp[i]
                        IN TempCandidate(t.word, F32FromInt(t.lm_score),
                                         F32FromInt(t.faiss_distance), t.faiss_rank,
                                         F32FromInt(t.dtw_raw), t.len_swipe,
                                         t.len_word)]
            IN [threw |-> FALSE, features |-> SecondPass(temp_candidates, tie)]

(***************************************************************************)
(* Specification SpecPasses: compute_all_features as RankCandidates calls  *)
(* it, on two vocabularies, every search result and three swipe paths     *)
(***************************************************************************)
PassVocabA == [i \in 0..2 |-> IF i = 0 THEN <<wax, wa>>
                              ELSE IF i = 1 THEN <<wa>> ELSE <<wq>>]
PassVocabB == [i \in 0..1 |-> IF i = 0 THEN <<wa>> ELSE <<waq, wx>>]
PassPaths == { <<keyboard_coord("a")>>,
               <<keyboard_coord("x"), keyboard_coord("a")>>,
               <<keyboard_coord("a"), keyboard_coord("x")>> }

\* the arguments RankCandidates hands over, with a language model and an
\* empty text
PassInput(swipe_path, faiss_results, content) ==
    LET pair == load_vocab(VocabFile(content))
        col == CollectCandidates(faiss_results, pair.vocab, TRUE,
                                 [state |-> BeginSentenceState, log_prob |-> 0],
                                 "intact")
    IN [swipe_path |-> swipe_path, faiss_results |-> faiss_results,
        vocab |-> pair.vocab, keys |-> pair.keys,
        lm_scores |-> col.lm_scores, candidate_words |-> col.candidate_words]

\* RankCandidates calls compute_all_features only with a non-empty candidate
\* list
PassInputs ==
    { in \in { PassInput(p, h, c) : p \in PassPaths, h \in HitSets,
                                    c \in {PassVocabA, PassVocabB} } :
        in.candidate_words # << >> }

InitPasses ==
    /\ InitEngine
    /\ IdleDTW /\ IdleRank /\ IdleLM /\ IdleEdit /\ IdleEnc /\ IdleView
    /\ featIn \in PassInputs
    /\ featOut = NoCall

ComputeAllFeatures(tie) ==
    /\ featOut = NoCall
    /\ LET r == AllFeatures(featIn.swipe_path, featIn.faiss_results, featIn.vocab,
                            featIn.keys, featIn.lm_scores, featIn.candidate_words,
                            tie)
       IN featOut' = [kind |-> "all", threw |-> r.threw, features |-> r.features]
    /\ UNCHANGED featIn
    /\ UNCHANGED <<engineVars, dtwVars, rankVars, lmVars, editVars, encVars, viewVars>>

NextPasses ==
    \E tie \in Permutations1(Len(featIn.candidate_words)) : ComputeAllFeatures(tie)

SpecPasses == InitPasses /\ [][NextPasses]_vars

\* compute_all_features has returned a non-empty list
PassReturned ==
    featOut.kind = "all" /\ ~featOut.threw /\ featOut.features # << >>

\* the cluster a word of the result was taken from: the first cluster of the
\* search result, in the order of its iteration, whose word list holds it
ContributingCluster(word) ==
    LET holding == { c \in DOMAIN featIn.faiss_results :
                       SeqContains(featIn.vocab.map[c], word) }
    IN CHOOSE c \in holding : \A d \in holding : c <= d

\* the canonical form of a cluster: the first spelling of its word list
CanonicalForm(c) == featIn.vocab.map[c][1]

\* C25: the DTW ranks of a non-empty result are a permutation of 1..N, a
\* candidate with a strictly smaller normalized-by-max distance has a
\* strictly smaller rank, and a candidate whose ideal path (that of its own
\* spelling and that of its cluster's canonical form) is exactly the swipe
\* path has DTW rank 1.
C25_DtwRanksAscending ==
    PassReturned =>
        LET f == featOut.features
            N == Len(f)
        IN /\ { f[i].dtw_rank : i \in 1..N } = 1..N
           /\ \A i, j \in 1..N :
                 F32Less(f[i].dtw_normalized_by_max, f[j].dtw_normalized_by_max)
                     => f[i].dtw_rank < f[j].dtw_rank
           /\ \A i \in 1..N :
                 ( /\ get_word_path(f[i].word) = featIn.swipe_path
                   /\ get_word_path(CanonicalForm(ContributingCluster(f[i].word)))
                          = featIn.swipe_path )
                     => f[i].dtw_rank = 1

\* no character of the spelling is in the keyboard table
OffKeyboard(w) == \A k \in 1..Len(w) : w[k] \notin KeyboardChars

\* C26: every candidate's DTW measurements are those of the swipe path
\* against the ideal path of the canonical form of the cluster it was taken
\* from: the candidates of one cluster share dtw_raw, the three normalized
\* values and len_word, word_length is the candidate's own length, and a
\* canonical form with no character of the keyboard table gives an empty
\* ideal path and DTW values 0.
C26_DtwAgainstCanonicalForm ==
    PassReturned =>
        LET f == featOut.features
        IN \A i \in 1..Len(f) :
              LET c == ContributingCluster(f[i].word)
                  path == get_word_path(CanonicalForm(c))
              IN /\ f[i].len_word = Len(path)
                 /\ f[i].dtw_raw
                        = F32FromInt(dtw_multivariate(featIn.swipe_path, path, 0 - 1))
                 /\ f[i].word_length = Len(f[i].word)
                 /\ \A j \in 1..Len(f) :
                       ContributingCluster(f[j].word) = c =>
                           /\ f[j].dtw_raw = f[i].dtw_raw
                           /\ f[j].dtw_normalized_by_max = f[i].dtw_normalized_by_max
                           /\ f[j].dtw_normalized_by_min = f[i].dtw_normalized_by_min
                           /\ f[j].dtw_normalized_by_sum = f[i].dtw_normalized_by_sum
                           /\ f[j].len_word = f[i].len_word
                 /\ OffKeyboard(CanonicalForm(c)) =>
                       /\ f[i].len_word = 0
                       /\ f[i].dtw_raw = F32Zero
                       /\ f[i].dtw_normalized_by_max = F32Zero
                       /\ f[i].dtw_normalized_by_min = F32Zero
                       /\ f[i].dtw_normalized_by_sum = F32Zero

\* two candidates of different lengths from one cluster at a non-zero
\* distance, and a candidate of a cluster whose canonical form is off the
\* keyboard
C26_Witness ==
    /\ PassReturned
    /\ \E i, j \in 1..Len(featOut.features) :
          /\ i # j
          /\ ContributingCluster(featOut.features[i].word)
                 = ContributingCluster(featOut.features[j].word)
          /\ featOut.features[i].word_length # featOut.features[j].word_length
          /\ featOut.features[i].dtw_raw # F32Zero
    /\ \E k \in 1..Len(featOut.features) :
          /\ OffKeyboard(CanonicalForm(ContributingCluster(featOut.features[k].word)))
          /\ featOut.features[k].len_word = 0

\* the 1-based position of cluster c in the iteration of the search result
EncounterPosition(c) ==
    1 + Cardinality({ d \in DOMAIN featIn.faiss_results : d < c })

\* C27: every candidate has the 1-based position, in the order the clusters
\* of the search result are gone through, of the cluster it was taken from as
\* faiss_rank and that cluster's distance as faiss_distance; the position
\* counts the clusters that gave no new word; is_top_faiss is 1 exactly for
\* the candidates of the first cluster.
C27_FaissRankByEncounterOrder ==
    PassReturned =>
        \A i \in 1..Len(featOut.features) :
            LET f == featOut.features[i]
                c == ContributingCluster(f.word)
            IN /\ f.faiss_rank = EncounterPosition(c)
               /\ f.faiss_distance = F32FromInt(featIn.faiss_results[c])
               /\ f.is_top_faiss = (IF EncounterPosition(c) = 1 THEN F32One ELSE F32Zero)

\* a candidate of the third cluster after a second cluster all of whose words
\* had been seen
C27_Witness ==
    /\ PassReturned
    /\ Len(featOut.features) = 3
    /\ featOut.features[3].faiss_rank = 3
    /\ featOut.features[2].faiss_rank = 1
    /\ featOut.features[3].is_top_faiss = F32Zero
    /\ featOut.features[1].is_top_faiss = F32One

\* C29: when compute_all_features returns, its output has one entry per
\* candidate of the lists RankCandidates built, in the same order: entry i
\* has the word candidate_words[i] and the score lm_scores[i].
C29_FeaturesAlignedWithCandidates ==
    (featOut.kind = "all" /\ ~featOut.threw) =>
        /\ Len(featOut.features) = Len(featIn.candidate_words)
        /\ Len(featOut.features) = Len(featIn.lm_scores)
        /\ \A i \in 1..Len(featOut.features) :
              /\ featOut.features[i].word = featIn.candidate_words[i]
              /\ featOut.features[i].lm_score = F32FromInt(featIn.lm_scores[i])

\* three candidates of two clusters, one word met a second time, with
\* different scores
C29_Witness ==
    /\ featOut.kind = "all" /\ ~featOut.threw
    /\ Len(featOut.features) = 3
    /\ Cardinality(DOMAIN featIn.faiss_results) = 3
    /\ featOut.features[1].lm_score # featOut.features[2].lm_score
    /\ featOut.features[2].lm_score # featOut.features[3].lm_score

(***************************************************************************)
(* KeyboardView: input mode, gaze updates and swipe recording.  The hover, *)
(* progress and highlight flags of the KeyButton objects only affect       *)
(* painting and are not part of the state.                                 *)
(***************************************************************************)
InputModes == {"LetterByLetter", "Swipe"}

\* gaze positions on the key 'a', on the key 'x' and off every key
GazePoints == { keyboard_coord("a"), keyboard_coord("x"), <<0, 0>> }

\* FindKeyAtPosition: the key under the position, "none" for nullptr
FindKeyAtPosition(pos) ==
    IF pos = <<0, 0>> THEN "none"
    ELSE IF pos = keyboard_coord("a") THEN "a" ELSE "x"

\* SetInputMode: a change of mode drops the hovered key and clears the swipe
\* path (ClearSwipePath) and the highlights
SetInputMode(mode) ==
    /\ IF m_inputMode # mode
       THEN /\ m_inputMode' = mode
            /\ m_currentHoveredKey' = "none"
            /\ m_swipePath' = << >>
       ELSE UNCHANGED <<m_inputMode, m_currentHoveredKey, m_swipePath>>
    /\ UNCHANGED <<m_recordingSwipe, swipeCompleted>>
    /\ UNCHANGED <<engineVars, dtwVars, rankVars, lmVars, editVars, featVars, encVars>>

\* UpdateGazePosition: the point is recorded while recording in Swipe mode;
\* in LetterByLetter mode the hovered key follows the gaze
UpdateGazePosition(pos) ==
    /\ (m_recordingSwipe /\ m_inputMode = "Swipe") => Len(m_swipePath) < MaxPathLen
    /\ m_swipePath' = IF m_recordingSwipe /\ m_inputMode = "Swipe"
                      THEN Append(m_swipePath, pos) ELSE m_swipePath
    /\ m_currentHoveredKey' = IF m_inputMode = "LetterByLetter"
                              THEN FindKeyAtPosition(pos) ELSE m_currentHoveredKey
    /\ UNCHANGED <<m_inputMode, m_recordingSwipe, swipeCompleted>>
    /\ UNCHANGED <<engineVars, dtwVars, rankVars, lmVars, editVars, featVars, encVars>>

StartSwipeRecording ==
    /\ IF m_inputMode = "Swipe"
       THEN m_recordingSwipe' = TRUE /\ m_swipePath' = << >>
       ELSE UNCHANGED <<m_recordingSwipe, m_swipePath>>
    /\ UNCHANGED <<m_inputMode, m_currentHoveredKey, swipeCompleted>>
    /\ UNCHANGED <<engineVars, dtwVars, rankVars, lmVars, editVars, featVars, encVars>>

\* StopSwipeRecording: a non-empty path goes to the OnSwipeCompleted handler
StopSwipeRecording ==
    /\ IF m_recordingSwipe
       THEN /\ m_recordingSwipe' = FALSE
            /\ swipeCompleted' = IF m_swipePath # << >>
                                 THEN [kind |-> "swipe", path |-> m_swipePath]
                                 ELSE swipeCompleted
       ELSE UNCHANGED <<m_recordingSwipe, swipeCompleted>>
    /\ UNCHANGED <<m_inputMode, m_swipePath, m_currentHoveredKey>>
    /\ UNCHANGED <<engineVars, dtwVars, rankVars, lmVars, editVars, featVars, encVars>>

(***************************************************************************)
(* Specification SpecView: any sequence of the four KeyboardView calls      *)
(***************************************************************************)
NextView ==
    \/ \E mode \in InputModes : SetInputMode(mode)
    \/ \E pos \in GazePoints : UpdateGazePosition(pos)
    \/ StartSwipeRecording
    \/ StopSwipeRecording

SpecView == Init /\ [][NextView]_vars

\* C30: after any sequence of SetInputMode, StartSwipeRecording,
\* UpdateGazePosition and StopSwipeRecording calls, IsRecordingSwipe()
\* implies GetInputMode() == Swipe.
C30_RecordingOnlyInSwipeMode ==
    m_recordingSwipe => m_inputMode = "Swipe"

====
